---- MODULE Spec2Model ----
(***************************************************************************)
(* S3 access-control gateway: request parser, SigV4 validator, tenant      *)
(* scope check, IAM-style policy engine, forwarder and audit logger.       *)
(*                                                                         *)
(* Go strings whose characters the code inspects (paths, buckets, actions, *)
(* ARNs, patterns, scopes) are sequences of one-character strings.  Names  *)
(* that are only compared or used as map keys (policy names, sids, access  *)
(* keys, header names) are plain strings.                                  *)
(***************************************************************************)
EXTENDS Integers, Sequences, FiniteSets, TLC

VARIABLES
    credentials,  \* InMemoryCredentialStore.credentials: access key -> Credential
    policies,     \* DefaultEngine.policies: policy name -> Policy
    pc,           \* position of the handler (or of the engine call under SpecEval)
    req,          \* the inbound *http.Request
    streams,      \* body streams: stream id -> bytes not yet read
    s3req,        \* the parsed S3Request (<<>> while nil)
    authCtx,      \* the AuthContext returned by authenticate (<<>> while nil)
    evalCtx,      \* the EvalContext handed to the engine (<<>> while none)
    policyNames,  \* the policy-name list handed to the engine
    decision,     \* the Decision returned by Evaluate (<<>> while none)
    trace,        \* calls made while handling the current request, in order
    auditLog,     \* entries passed to auditLogger.Log for the current request
    response,     \* what has been written to the http.ResponseWriter (<<>> while nothing)
    backend,      \* calls the forwarder made to the backing store for this request
    requestId,    \* the request id ServeHTTP generated
    authErr,      \* the error authenticate returned ("" while nil)
    prev,         \* observable outcome of the previous authentication failure (<<>> if none)
    args,         \* arguments of the library call being made (<<>> while none)
    result,       \* what that call returned (<<>> while none)
    locks,        \* state of the mutexes the goroutines share (<<>> while one goroutine runs)
    threads,      \* position and locals of each goroutine (<<>> while one goroutine runs)
    sinks         \* bytes received by the writers of the audit logger (<<>> while not looked at)

vars == <<credentials, policies, pc, req, streams, s3req, authCtx, evalCtx,
          policyNames, decision, trace, auditLog, response, backend, requestId,
          authErr, prev, args, result, locks, threads,
          sinks>>

(***************************************************************************)
(* Bounds of the model.                                                    *)
(***************************************************************************)
MaxStatements == 2   \* statements in a drawn policy store (SpecEval)
MaxNames == 2        \* length of a drawn policy-name list (SpecEval)

(***************************************************************************)
(* strings package                                                         *)
(***************************************************************************)
\* strings.Index(s, c) for a one-character separator: first position, 0 if none
IndexOf(s, c) ==
    IF \E i \in 1..Len(s) : s[i] = c
    THEN CHOOSE i \in 1..Len(s) : s[i] = c /\ \A j \in 1..(i - 1) : s[j] # c
    ELSE 0

\* strings.SplitN(s, sep, 2) for a one-character separator
SplitN2(s, sep) ==
    LET i == IndexOf(s, sep)
    IN  IF i = 0 THEN <<s>>
        ELSE <<SubSeq(s, 1, i - 1), SubSeq(s, i + 1, Len(s))>>

HasPrefix(s, p) == Len(s) >= Len(p) /\ SubSeq(s, 1, Len(p)) = p

TrimPrefix(s, p) == IF HasPrefix(s, p) THEN SubSeq(s, Len(p) + 1, Len(s)) ELSE s

(***************************************************************************)
(* internal/errors: deny reasons                                           *)
(***************************************************************************)
DenyTenantBoundary == "DENY_TENANT_BOUNDARY"
DenyPolicy == "DENY_POLICY"
DenyInvalidResource == "DENY_INVALID_RESOURCE"
DenyAuthFailed == "DENY_AUTH_FAILED"
DenyInternalError == "DENY_INTERNAL_ERROR"

(***************************************************************************)
(* internal/policy: matcher                                                *)
(***************************************************************************)
RegexMetaChars == {".", "+", "^", "$", "[", "]", "(", ")", "{", "}", "|", "\\"}

\* A byte that is not part of any UTF-8 encoding (0xFF), and the character
\* U+FFFD that Go's decoder yields for it.  Every other element of a string
\* of the model is a whole, validly encoded character.
InvalidByte == "\\xff"
RuneError == "\\ufffd"

\* the rune "for _, ch := range pattern" yields at an element of the string
DecodeRune(b) == IF b = InvalidByte THEN RuneError ELSE b

\* patternToRegex: "*" -> ".*", "?" -> ".", metacharacters escaped; the
\* pattern is read rune by rune and each rune written back with WriteRune
RECURSIVE patternToRegex(_)
patternToRegex(pattern) ==
    IF pattern = <<>> THEN <<>>
    ELSE LET ch == DecodeRune(Head(pattern))
             out == IF ch = "*" THEN <<".", "*">>
                    ELSE IF ch = "?" THEN <<".">>
                    ELSE IF ch \in RegexMetaChars THEN <<"\\", ch>>
                    ELSE <<ch>>
         IN  out \o patternToRegex(Tail(pattern))

\* Go regexp, for the expressions patternToRegex can produce: "\c" is the
\* literal c, "." is any character but newline, ".*" any run of them, "^" and
\* "$" anchor the text's ends.  TRUE iff re matches s[j..k-1] for some k.
RECURSIVE RegexMatchAt(_, _, _, _)
RegexMatchAt(re, i, s, j) ==
    IF i > Len(re) THEN TRUE
    ELSE IF re[i] = "^" THEN j = 1 /\ RegexMatchAt(re, i + 1, s, j)
    ELSE IF re[i] = "$" THEN j = Len(s) + 1 /\ RegexMatchAt(re, i + 1, s, j)
    ELSE IF re[i] = "\\" THEN
        /\ i + 1 <= Len(re)
        /\ j <= Len(s)
        /\ s[j] = re[i + 1]
        /\ RegexMatchAt(re, i + 2, s, j + 1)
    ELSE IF re[i] = "." THEN
        IF i + 1 <= Len(re) /\ re[i + 1] = "*"
        THEN \E k \in j..(Len(s) + 1) :
                /\ \A m \in j..(k - 1) : s[m] # "\n"
                /\ RegexMatchAt(re, i + 2, s, k)
        ELSE /\ j <= Len(s)
             /\ s[j] # "\n"
             /\ RegexMatchAt(re, i + 1, s, j + 1)
    ELSE /\ j <= Len(s)
         /\ s[j] = re[i]
         /\ RegexMatchAt(re, i + 1, s, j + 1)

\* regexp.MatchString(re, s): re matches somewhere in s
RegexpMatchString(re, s) == \E j \in 1..(Len(s) + 1) : RegexMatchAt(re, 1, s, j)

matchPattern(str, pattern) ==
    RegexpMatchString(<<"^">> \o patternToRegex(pattern) \o <<"$">>, str)

matchScopePattern(bucket, scopePattern) ==
    LET parts == SplitN2(scopePattern, "/")
        bucketPattern == parts[1]
    IN  matchPattern(bucket, bucketPattern)

MatchAction(action, patterns) ==
    \E i \in 1..Len(patterns) : matchPattern(action, patterns[i])

MatchResource(resource, patterns) ==
    \E i \in 1..Len(patterns) : matchPattern(resource, patterns[i])

MatchScope(bucket, scopes) ==
    \E i \in 1..Len(scopes) : matchScopePattern(bucket, scopes[i])

ArnPrefix == <<"a", "r", "n", ":", "a", "w", "s", ":", "s", "3", ":", ":", ":">>

BuildResourceARN(bucket, key) ==
    IF key = <<>> THEN ArnPrefix \o bucket
    ELSE ArnPrefix \o bucket \o <<"/">> \o key

(***************************************************************************)
(* internal/policy: types                                                  *)
(***************************************************************************)
EffectAllow == "Allow"
EffectDeny == "Deny"

NewAllowDecision(policyName, statementSid) ==
    [Allowed |-> TRUE, DenyReason |-> "",
     MatchedPolicy |-> policyName, MatchedStatement |-> statementSid]

NewDenyDecision(reason, policyName, statementSid) ==
    [Allowed |-> FALSE, DenyReason |-> reason,
     MatchedPolicy |-> policyName, MatchedStatement |-> statementSid]

\* faulty variant: the fall-through decision allows
DefaultDenyDecision_Allows ==
    [Allowed |-> TRUE, DenyReason |-> "",
     MatchedPolicy |-> "", MatchedStatement |-> ""]

DefaultDenyDecision ==
    [Allowed |-> FALSE, DenyReason |-> DenyPolicy,
     MatchedPolicy |-> "", MatchedStatement |-> ""]

(***************************************************************************)
(* internal/policy: engine                                                 *)
(***************************************************************************)
\* faulty variant: an operator the engine does not know is taken to hold
evaluateCondition_FailOpen(operator, actual, expected) ==
    CASE operator = "StringEquals" -> actual = expected
      [] operator = "StringNotEquals" -> actual # expected
      [] operator = "StringLike" -> MatchAction(actual, <<expected>>)
      [] operator = "StringNotLike" -> ~MatchAction(actual, <<expected>>)
      [] OTHER -> TRUE

evaluateCondition(operator, actual, expected) ==
    CASE operator = "StringEquals" -> actual = expected
      [] operator = "StringNotEquals" -> actual # expected
      [] operator = "StringLike" -> MatchAction(actual, <<expected>>)
      [] operator = "StringNotLike" -> ~MatchAction(actual, <<expected>>)
      [] OTHER -> FALSE

\* The loops return false at the first pair that fails; whatever order the
\* maps are ranged in, the result is true iff no pair fails.
evaluateConditions(ctx, conditions) ==
    \A operator \in DOMAIN conditions :
        \A key \in DOMAIN conditions[operator] :
            /\ key \in DOMAIN ctx.Conditions
            /\ evaluateCondition(operator, ctx.Conditions[key],
                                 conditions[operator][key])

statementMatches(ctx, stmt) ==
    /\ MatchAction(ctx.Action, stmt.Actions)
    /\ MatchResource(ctx.Resource, stmt.Resources)
    /\ (DOMAIN stmt.Conditions # {} => evaluateConditions(ctx, stmt.Conditions))

\* A *Decision is <<>> when nil and <<d>> otherwise.
RECURSIVE evaluatePolicyFrom(_, _, _, _)
evaluatePolicyFrom(ctx, policy, i, allowDecision) ==
    IF i > Len(policy.Statements) THEN allowDecision
    ELSE LET stmt == policy.Statements[i]
         IN  IF ~statementMatches(ctx, stmt)
             THEN evaluatePolicyFrom(ctx, policy, i + 1, allowDecision)
             ELSE IF stmt.Effect = EffectDeny
             THEN <<NewDenyDecision(DenyPolicy, policy.Name, stmt.Sid)>>
             ELSE IF stmt.Effect = EffectAllow /\ allowDecision = <<>>
             THEN evaluatePolicyFrom(ctx, policy, i + 1,
                                     <<NewAllowDecision(policy.Name, stmt.Sid)>>)
             ELSE evaluatePolicyFrom(ctx, policy, i + 1, allowDecision)

\* faulty variant: the first matching statement decides, Allow or Deny
RECURSIVE evaluatePolicy_FirstMatchFrom(_, _, _)
evaluatePolicy_FirstMatchFrom(ctx, policy, i) ==
    IF i > Len(policy.Statements) THEN <<>>
    ELSE LET stmt == policy.Statements[i]
         IN  IF ~statementMatches(ctx, stmt)
             THEN evaluatePolicy_FirstMatchFrom(ctx, policy, i + 1)
             ELSE IF stmt.Effect = EffectDeny
             THEN <<NewDenyDecision(DenyPolicy, policy.Name, stmt.Sid)>>
             ELSE <<NewAllowDecision(policy.Name, stmt.Sid)>>

evaluatePolicy_FirstMatch(ctx, policy) == evaluatePolicy_FirstMatchFrom(ctx, policy, 1)

evaluatePolicy(ctx, policy) == evaluatePolicyFrom(ctx, policy, 1, <<>>)

RECURSIVE EvaluateFrom(_, _, _, _)
EvaluateFrom(ctx, names, i, allowDecision) ==
    IF i > Len(names)
    THEN IF allowDecision # <<>> THEN allowDecision[1] ELSE DefaultDenyDecision
    ELSE IF names[i] \notin DOMAIN policies
    THEN EvaluateFrom(ctx, names, i + 1, allowDecision)
    ELSE LET d == evaluatePolicy(ctx, policies[names[i]])
         IN  IF d # <<>> /\ ~d[1].Allowed THEN d[1]
             ELSE IF d # <<>> /\ d[1].Allowed /\ allowDecision = <<>>
             THEN EvaluateFrom(ctx, names, i + 1, d)
             ELSE EvaluateFrom(ctx, names, i + 1, allowDecision)

\* faulty variant: a name the store does not hold ends the evaluation with a deny
RECURSIVE Evaluate_UnknownDeniesFrom(_, _, _, _)
Evaluate_UnknownDeniesFrom(ctx, names, i, allowDecision) ==
    IF i > Len(names)
    THEN IF allowDecision # <<>> THEN allowDecision[1] ELSE DefaultDenyDecision
    ELSE IF names[i] \notin DOMAIN policies
    THEN NewDenyDecision(DenyPolicy, names[i], "")
    ELSE LET d == evaluatePolicy(ctx, policies[names[i]])
         IN  IF d # <<>> /\ ~d[1].Allowed THEN d[1]
             ELSE IF d # <<>> /\ d[1].Allowed /\ allowDecision = <<>>
             THEN Evaluate_UnknownDeniesFrom(ctx, names, i + 1, d)
             ELSE Evaluate_UnknownDeniesFrom(ctx, names, i + 1, allowDecision)

Evaluate_UnknownDenies(ctx, names) == Evaluate_UnknownDeniesFrom(ctx, names, 1, <<>>)

\* faulty variant: every allow replaces the tracked one, so the last one is reported
RECURSIVE Evaluate_LastAllowFrom(_, _, _, _)
Evaluate_LastAllowFrom(ctx, names, i, allowDecision) ==
    IF i > Len(names)
    THEN IF allowDecision # <<>> THEN allowDecision[1] ELSE DefaultDenyDecision
    ELSE IF names[i] \notin DOMAIN policies
    THEN Evaluate_LastAllowFrom(ctx, names, i + 1, allowDecision)
    ELSE LET d == evaluatePolicy(ctx, policies[names[i]])
         IN  IF d # <<>> /\ ~d[1].Allowed THEN d[1]
             ELSE IF d # <<>> /\ d[1].Allowed
             THEN Evaluate_LastAllowFrom(ctx, names, i + 1, d)
             ELSE Evaluate_LastAllowFrom(ctx, names, i + 1, allowDecision)

Evaluate_LastAllow(ctx, names) == Evaluate_LastAllowFrom(ctx, names, 1, <<>>)

Evaluate(ctx, names) == EvaluateFrom(ctx, names, 1, <<>>)

(***************************************************************************)
(* internal/proxy: request parser                                          *)
(***************************************************************************)
MethodGet == "GET"
MethodHead == "HEAD"
MethodPut == "PUT"
MethodPost == "POST"
MethodDelete == "DELETE"

\* parsePath: <<bucket, key>>, split on the first "/" after the leading slash
parsePath(urlPath) ==
    LET path == TrimPrefix(urlPath, <<"/">>)
    IN  IF path = <<>> THEN <<(<<>>), (<<>>)>>
        ELSE LET parts == SplitN2(path, "/")
             IN  <<parts[1], IF Len(parts) > 1 THEN parts[2] ELSE <<>>>>

\* faulty variant: the query parameters are not looked at
determineAction_IgnoresQuery(method, bucket, key, query) ==
    IF key = <<>> /\ method = MethodGet THEN <<"s", "3", ":", "L", "i", "s", "t", "B", "u", "c", "k", "e", "t">>
    ELSE IF key = <<>> /\ method = MethodHead THEN <<"s", "3", ":", "L", "i", "s", "t", "B", "u", "c", "k", "e", "t">>
    ELSE IF key = <<>> /\ method = MethodPut THEN <<"s", "3", ":", "C", "r", "e", "a", "t", "e", "B", "u", "c", "k", "e", "t">>
    ELSE IF key = <<>> /\ method = MethodDelete THEN <<"s", "3", ":", "D", "e", "l", "e", "t", "e", "B", "u", "c", "k", "e", "t">>
    ELSE IF method = MethodGet THEN <<"s", "3", ":", "G", "e", "t", "O", "b", "j", "e", "c", "t">>
    ELSE IF method = MethodHead THEN <<"s", "3", ":", "G", "e", "t", "O", "b", "j", "e", "c", "t">>
    ELSE IF method = MethodPut THEN <<"s", "3", ":", "P", "u", "t", "O", "b", "j", "e", "c", "t">>
    ELSE IF method = MethodPost THEN <<"s", "3", ":", "P", "u", "t", "O", "b", "j", "e", "c", "t">>
    ELSE IF method = MethodDelete THEN <<"s", "3", ":", "D", "e", "l", "e", "t", "e", "O", "b", "j", "e", "c", "t">>
    ELSE <<"s", "3", ":", "U", "n", "k", "n", "o", "w", "n">>

\* faulty variant: ?acl with a method other than GET and PUT is not an action
determineAction_AclUnlistedUnknown(method, bucket, key, query) ==
    IF "acl" \in query /\ method \notin {MethodGet, MethodPut} THEN <<"s", "3", ":", "U", "n", "k", "n", "o", "w", "n">>
    ELSE IF "acl" \in query /\ method = MethodGet
        THEN (IF key = <<>> THEN <<"s", "3", ":", "G", "e", "t", "B", "u", "c", "k", "e", "t", "A", "c", "l">> ELSE <<"s", "3", ":", "G", "e", "t", "O", "b", "j", "e", "c", "t", "A", "c", "l">>)
    ELSE IF "acl" \in query /\ method = MethodPut
        THEN (IF key = <<>> THEN <<"s", "3", ":", "P", "u", "t", "B", "u", "c", "k", "e", "t", "A", "c", "l">> ELSE <<"s", "3", ":", "P", "u", "t", "O", "b", "j", "e", "c", "t", "A", "c", "l">>)
    ELSE IF "versioning" \in query /\ method = MethodGet THEN <<"s", "3", ":", "G", "e", "t", "B", "u", "c", "k", "e", "t", "V", "e", "r", "s", "i", "o", "n", "i", "n", "g">>
    ELSE IF "versioning" \in query /\ method = MethodPut THEN <<"s", "3", ":", "P", "u", "t", "B", "u", "c", "k", "e", "t", "V", "e", "r", "s", "i", "o", "n", "i", "n", "g">>
    ELSE IF "lifecycle" \in query /\ method = MethodGet THEN <<"s", "3", ":", "G", "e", "t", "L", "i", "f", "e", "c", "y", "c", "l", "e", "C", "o", "n", "f", "i", "g", "u", "r", "a", "t", "i", "o", "n">>
    ELSE IF "lifecycle" \in query /\ method = MethodPut THEN <<"s", "3", ":", "P", "u", "t", "L", "i", "f", "e", "c", "y", "c", "l", "e", "C", "o", "n", "f", "i", "g", "u", "r", "a", "t", "i", "o", "n">>
    ELSE IF "lifecycle" \in query /\ method = MethodDelete THEN <<"s", "3", ":", "D", "e", "l", "e", "t", "e", "L", "i", "f", "e", "c", "y", "c", "l", "e", "C", "o", "n", "f", "i", "g", "u", "r", "a", "t", "i", "o", "n">>
    ELSE IF "policy" \in query /\ method = MethodGet THEN <<"s", "3", ":", "G", "e", "t", "B", "u", "c", "k", "e", "t", "P", "o", "l", "i", "c", "y">>
    ELSE IF "policy" \in query /\ method = MethodPut THEN <<"s", "3", ":", "P", "u", "t", "B", "u", "c", "k", "e", "t", "P", "o", "l", "i", "c", "y">>
    ELSE IF "policy" \in query /\ method = MethodDelete THEN <<"s", "3", ":", "D", "e", "l", "e", "t", "e", "B", "u", "c", "k", "e", "t", "P", "o", "l", "i", "c", "y">>
    ELSE IF "tagging" \in query /\ method = MethodGet
        THEN (IF key = <<>> THEN <<"s", "3", ":", "G", "e", "t", "B", "u", "c", "k", "e", "t", "T", "a", "g", "g", "i", "n", "g">> ELSE <<"s", "3", ":", "G", "e", "t", "O", "b", "j", "e", "c", "t", "T", "a", "g", "g", "i", "n", "g">>)
    ELSE IF "tagging" \in query /\ method = MethodPut
        THEN (IF key = <<>> THEN <<"s", "3", ":", "P", "u", "t", "B", "u", "c", "k", "e", "t", "T", "a", "g", "g", "i", "n", "g">> ELSE <<"s", "3", ":", "P", "u", "t", "O", "b", "j", "e", "c", "t", "T", "a", "g", "g", "i", "n", "g">>)
    ELSE IF "tagging" \in query /\ method = MethodDelete
        THEN (IF key = <<>> THEN <<"s", "3", ":", "D", "e", "l", "e", "t", "e", "B", "u", "c", "k", "e", "t", "T", "a", "g", "g", "i", "n", "g">> ELSE <<"s", "3", ":", "D", "e", "l", "e", "t", "e", "O", "b", "j", "e", "c", "t", "T", "a", "g", "g", "i", "n", "g">>)
    ELSE IF "uploads" \in query /\ method = MethodPost THEN <<"s", "3", ":", "P", "u", "t", "O", "b", "j", "e", "c", "t">>
    ELSE IF "uploads" \in query /\ method = MethodGet THEN <<"s", "3", ":", "L", "i", "s", "t", "B", "u", "c", "k", "e", "t", "M", "u", "l", "t", "i", "p", "a", "r", "t", "U", "p", "l", "o", "a", "d", "s">>
    ELSE IF "uploadId" \in query /\ method = MethodPut THEN <<"s", "3", ":", "P", "u", "t", "O", "b", "j", "e", "c", "t">>
    ELSE IF "uploadId" \in query /\ method = MethodPost THEN <<"s", "3", ":", "P", "u", "t", "O", "b", "j", "e", "c", "t">>
    ELSE IF "uploadId" \in query /\ method = MethodDelete THEN <<"s", "3", ":", "A", "b", "o", "r", "t", "M", "u", "l", "t", "i", "p", "a", "r", "t", "U", "p", "l", "o", "a", "d">>
    ELSE IF "uploadId" \in query /\ method = MethodGet THEN <<"s", "3", ":", "L", "i", "s", "t", "M", "u", "l", "t", "i", "p", "a", "r", "t", "U", "p", "l", "o", "a", "d", "P", "a", "r", "t", "s">>
    ELSE IF key = <<>> /\ method = MethodGet THEN <<"s", "3", ":", "L", "i", "s", "t", "B", "u", "c", "k", "e", "t">>
    ELSE IF key = <<>> /\ method = MethodHead THEN <<"s", "3", ":", "L", "i", "s", "t", "B", "u", "c", "k", "e", "t">>
    ELSE IF key = <<>> /\ method = MethodPut THEN <<"s", "3", ":", "C", "r", "e", "a", "t", "e", "B", "u", "c", "k", "e", "t">>
    ELSE IF key = <<>> /\ method = MethodDelete THEN <<"s", "3", ":", "D", "e", "l", "e", "t", "e", "B", "u", "c", "k", "e", "t">>
    ELSE IF method = MethodGet THEN <<"s", "3", ":", "G", "e", "t", "O", "b", "j", "e", "c", "t">>
    ELSE IF method = MethodHead THEN <<"s", "3", ":", "G", "e", "t", "O", "b", "j", "e", "c", "t">>
    ELSE IF method = MethodPut THEN <<"s", "3", ":", "P", "u", "t", "O", "b", "j", "e", "c", "t">>
    ELSE IF method = MethodPost THEN <<"s", "3", ":", "P", "u", "t", "O", "b", "j", "e", "c", "t">>
    ELSE IF method = MethodDelete THEN <<"s", "3", ":", "D", "e", "l", "e", "t", "e", "O", "b", "j", "e", "c", "t">>
    ELSE <<"s", "3", ":", "U", "n", "k", "n", "o", "w", "n">>

\* determineAction; query is the set of parameter names present (url.Values.Has)
determineAction(method, bucket, key, query) ==
    IF "acl" \in query /\ method = MethodGet
        THEN (IF key = <<>> THEN <<"s", "3", ":", "G", "e", "t", "B", "u", "c", "k", "e", "t", "A", "c", "l">> ELSE <<"s", "3", ":", "G", "e", "t", "O", "b", "j", "e", "c", "t", "A", "c", "l">>)
    ELSE IF "acl" \in query /\ method = MethodPut
        THEN (IF key = <<>> THEN <<"s", "3", ":", "P", "u", "t", "B", "u", "c", "k", "e", "t", "A", "c", "l">> ELSE <<"s", "3", ":", "P", "u", "t", "O", "b", "j", "e", "c", "t", "A", "c", "l">>)
    ELSE IF "versioning" \in query /\ method = MethodGet THEN <<"s", "3", ":", "G", "e", "t", "B", "u", "c", "k", "e", "t", "V", "e", "r", "s", "i", "o", "n", "i", "n", "g">>
    ELSE IF "versioning" \in query /\ method = MethodPut THEN <<"s", "3", ":", "P", "u", "t", "B", "u", "c", "k", "e", "t", "V", "e", "r", "s", "i", "o", "n", "i", "n", "g">>
    ELSE IF "lifecycle" \in query /\ method = MethodGet THEN <<"s", "3", ":", "G", "e", "t", "L", "i", "f", "e", "c", "y", "c", "l", "e", "C", "o", "n", "f", "i", "g", "u", "r", "a", "t", "i", "o", "n">>
    ELSE IF "lifecycle" \in query /\ method = MethodPut THEN <<"s", "3", ":", "P", "u", "t", "L", "i", "f", "e", "c", "y", "c", "l", "e", "C", "o", "n", "f", "i", "g", "u", "r", "a", "t", "i", "o", "n">>
    ELSE IF "lifecycle" \in query /\ method = MethodDelete THEN <<"s", "3", ":", "D", "e", "l", "e", "t", "e", "L", "i", "f", "e", "c", "y", "c", "l", "e", "C", "o", "n", "f", "i", "g", "u", "r", "a", "t", "i", "o", "n">>
    ELSE IF "policy" \in query /\ method = MethodGet THEN <<"s", "3", ":", "G", "e", "t", "B", "u", "c", "k", "e", "t", "P", "o", "l", "i", "c", "y">>
    ELSE IF "policy" \in query /\ method = MethodPut THEN <<"s", "3", ":", "P", "u", "t", "B", "u", "c", "k", "e", "t", "P", "o", "l", "i", "c", "y">>
    ELSE IF "policy" \in query /\ method = MethodDelete THEN <<"s", "3", ":", "D", "e", "l", "e", "t", "e", "B", "u", "c", "k", "e", "t", "P", "o", "l", "i", "c", "y">>
    ELSE IF "tagging" \in query /\ method = MethodGet
        THEN (IF key = <<>> THEN <<"s", "3", ":", "G", "e", "t", "B", "u", "c", "k", "e", "t", "T", "a", "g", "g", "i", "n", "g">> ELSE <<"s", "3", ":", "G", "e", "t", "O", "b", "j", "e", "c", "t", "T", "a", "g", "g", "i", "n", "g">>)
    ELSE IF "tagging" \in query /\ method = MethodPut
        THEN (IF key = <<>> THEN <<"s", "3", ":", "P", "u", "t", "B", "u", "c", "k", "e", "t", "T", "a", "g", "g", "i", "n", "g">> ELSE <<"s", "3", ":", "P", "u", "t", "O", "b", "j", "e", "c", "t", "T", "a", "g", "g", "i", "n", "g">>)
    ELSE IF "tagging" \in query /\ method = MethodDelete
        THEN (IF key = <<>> THEN <<"s", "3", ":", "D", "e", "l", "e", "t", "e", "B", "u", "c", "k", "e", "t", "T", "a", "g", "g", "i", "n", "g">> ELSE <<"s", "3", ":", "D", "e", "l", "e", "t", "e", "O", "b", "j", "e", "c", "t", "T", "a", "g", "g", "i", "n", "g">>)
    ELSE IF "uploads" \in query /\ method = MethodPost THEN <<"s", "3", ":", "P", "u", "t", "O", "b", "j", "e", "c", "t">>
    ELSE IF "uploads" \in query /\ method = MethodGet THEN <<"s", "3", ":", "L", "i", "s", "t", "B", "u", "c", "k", "e", "t", "M", "u", "l", "t", "i", "p", "a", "r", "t", "U", "p", "l", "o", "a", "d", "s">>
    ELSE IF "uploadId" \in query /\ method = MethodPut THEN <<"s", "3", ":", "P", "u", "t", "O", "b", "j", "e", "c", "t">>
    ELSE IF "uploadId" \in query /\ method = MethodPost THEN <<"s", "3", ":", "P", "u", "t", "O", "b", "j", "e", "c", "t">>
    ELSE IF "uploadId" \in query /\ method = MethodDelete THEN <<"s", "3", ":", "A", "b", "o", "r", "t", "M", "u", "l", "t", "i", "p", "a", "r", "t", "U", "p", "l", "o", "a", "d">>
    ELSE IF "uploadId" \in query /\ method = MethodGet THEN <<"s", "3", ":", "L", "i", "s", "t", "M", "u", "l", "t", "i", "p", "a", "r", "t", "U", "p", "l", "o", "a", "d", "P", "a", "r", "t", "s">>
    ELSE IF key = <<>> /\ method = MethodGet THEN <<"s", "3", ":", "L", "i", "s", "t", "B", "u", "c", "k", "e", "t">>
    ELSE IF key = <<>> /\ method = MethodHead THEN <<"s", "3", ":", "L", "i", "s", "t", "B", "u", "c", "k", "e", "t">>
    ELSE IF key = <<>> /\ method = MethodPut THEN <<"s", "3", ":", "C", "r", "e", "a", "t", "e", "B", "u", "c", "k", "e", "t">>
    ELSE IF key = <<>> /\ method = MethodDelete THEN <<"s", "3", ":", "D", "e", "l", "e", "t", "e", "B", "u", "c", "k", "e", "t">>
    ELSE IF method = MethodGet THEN <<"s", "3", ":", "G", "e", "t", "O", "b", "j", "e", "c", "t">>
    ELSE IF method = MethodHead THEN <<"s", "3", ":", "G", "e", "t", "O", "b", "j", "e", "c", "t">>
    ELSE IF method = MethodPut THEN <<"s", "3", ":", "P", "u", "t", "O", "b", "j", "e", "c", "t">>
    ELSE IF method = MethodPost THEN <<"s", "3", ":", "P", "u", "t", "O", "b", "j", "e", "c", "t">>
    ELSE IF method = MethodDelete THEN <<"s", "3", ":", "D", "e", "l", "e", "t", "e", "O", "b", "j", "e", "c", "t">>
    ELSE <<"s", "3", ":", "U", "n", "k", "n", "o", "w", "n">>

\* ParseS3Request: Body is the request's body stream itself (the same reader,
\* not a copy of its bytes); it never returns an error
ParseS3Request(r) ==
    LET bk == parsePath(r.Path)
    IN  [Bucket |-> bk[1], Key |-> bk[2],
         Action |-> determineAction(r.Method, bk[1], bk[2], r.Query),
         HTTPMethod |-> r.Method, Body |-> r.Body, QueryParams |-> r.Query]

ToARN(sreq) == BuildResourceARN(sreq.Bucket, sreq.Key)

(***************************************************************************)
(* internal/auth: Signature V4.  SHA-256 and HMAC-SHA256 are symbolic:     *)
(* a digest is the tagged tuple of its inputs, so two digests are equal    *)
(* exactly when their inputs are.                                          *)
(***************************************************************************)
hashSHA256(data) == <<"sha256", data>>

hmacSHA256(key, data) == <<"hmac", key, data>>

\* the allowed clock skew, in seconds (15 * time.Minute)
ClockSkew == 900

\* ParseAuthHeader: <<components>>, or <<>> when the header does not match
\* authHeaderRegex.  A header is held as what the regular expression would
\* extract from it.
ParseAuthHeader(authHeader) ==
    IF authHeader.kind = "sigv4"
    THEN <<[AccessKey |-> authHeader.AccessKey, Date |-> authHeader.Date,
            Region |-> authHeader.Region, Service |-> authHeader.Service,
            SignedHeaders |-> authHeader.SignedHeaders,
            Signature |-> authHeader.Signature]>>
    ELSE <<>>

\* req.Header.Get / req.Host for the headers the validator reads
HeaderValue(r, h) ==
    CASE h = "host" -> <<r.Host>>
      [] h = "x-amz-date" -> r.AmzDate
      [] h = "x-amz-content-sha256" -> r.ContentSha256
      [] OTHER -> <<>>

createCanonicalHeaders(r, signedHeaders) ==
    [i \in 1..Len(signedHeaders) |-> <<signedHeaders[i], HeaderValue(r, signedHeaders[i])>>]

\* createCanonicalRequest; bodyBytes is what io.ReadAll(req.Body) returns,
\* used only when the X-Amz-Content-Sha256 header is absent
createCanonicalRequest(r, bodyBytes, components) ==
    <<r.Method,
      IF r.Path = <<>> THEN <<"/">> ELSE r.Path,
      r.Query,
      createCanonicalHeaders(r, components.SignedHeaders),
      components.SignedHeaders,
      IF r.ContentSha256 # <<>> THEN r.ContentSha256[1] ELSE hashSHA256(bodyBytes)>>

createStringToSign(amzDate, components, canonicalRequest) ==
    <<"AWS4-HMAC-SHA256", amzDate,
      <<components.Date, components.Region, components.Service, "aws4_request">>,
      hashSHA256(canonicalRequest)>>

calculateSignature(secretKey, date, region, service, stringToSign) ==
    LET kDate == hmacSHA256(<<"AWS4", secretKey>>, date)
        kRegion == hmacSHA256(kDate, region)
        kService == hmacSHA256(kRegion, service)
        kSigning == hmacSHA256(kService, "aws4_request")
    IN  hmacSHA256(kSigning, stringToSign)

computeSignature(r, bodyBytes, secretKey, components, amzDate) ==
    calculateSignature(secretKey, components.Date, components.Region,
                       components.Service,
                       createStringToSign(amzDate, components,
                                          createCanonicalRequest(r, bodyBytes, components)))

\* ParseAndValidate reaches computeSignature (and so may read the body)
\* only after the header, access-key and timestamp checks passed
ReachesSignature(r, credential) ==
    /\ r.Authorization.kind # "absent"
    /\ ParseAuthHeader(r.Authorization) # <<>>
    /\ ParseAuthHeader(r.Authorization)[1].AccessKey = credential.AccessKey
    /\ r.AmzDate # <<>>
    /\ ~(r.AmzDate[1] < 0 - ClockSkew \/ r.AmzDate[1] > ClockSkew)

\* faulty variant: a skew of exactly fifteen minutes is refused
ParseAndValidate_StrictWindow(r, bodyBytes, credential) ==
    IF r.Authorization.kind = "absent" THEN "missing Authorization header"
    ELSE IF ParseAuthHeader(r.Authorization) = <<>>
        THEN "invalid Authorization header format"
    ELSE LET components == ParseAuthHeader(r.Authorization)[1]
         IN  IF components.AccessKey # credential.AccessKey THEN "access key mismatch"
             ELSE IF r.AmzDate = <<>> THEN "missing X-Amz-Date header"
             ELSE IF r.AmzDate[1] <= 0 - ClockSkew \/ r.AmzDate[1] >= ClockSkew
                 THEN "request timestamp is outside allowed window"
             ELSE IF computeSignature(r, bodyBytes, credential.SecretKey,
                                      components, r.AmzDate[1])
                     # components.Signature
                 THEN "signature mismatch"
             ELSE ""

\* ParseAndValidate: the error it returns, "" for nil.  X-Amz-Date holds the
\* request time in seconds relative to the validator's clock.
ParseAndValidate(r, bodyBytes, credential) ==
    IF r.Authorization.kind = "absent" THEN "missing Authorization header"
    ELSE IF ParseAuthHeader(r.Authorization) = <<>>
        THEN "invalid Authorization header format"
    ELSE LET components == ParseAuthHeader(r.Authorization)[1]
         IN  IF components.AccessKey # credential.AccessKey THEN "access key mismatch"
             ELSE IF r.AmzDate = <<>> THEN "missing X-Amz-Date header"
             ELSE IF r.AmzDate[1] < 0 - ClockSkew \/ r.AmzDate[1] > ClockSkew
                 THEN "request timestamp is outside allowed window"
             ELSE IF computeSignature(r, bodyBytes, credential.SecretKey,
                                      components, r.AmzDate[1])
                     # components.Signature
                 THEN "signature mismatch"
             ELSE ""

\* the body is read iff the signature is computed without a supplied hash
ReadsBody(r, credential) ==
    ReachesSignature(r, credential) /\ r.ContentSha256 = <<>>

(***************************************************************************)
(* internal/errors: S3 error documents                                     *)
(***************************************************************************)
ToS3ErrorCode(reason) ==
    CASE reason = DenyInvalidResource -> "InvalidRequest"
      [] reason = DenyAuthFailed -> "SignatureDoesNotMatch"
      [] reason = DenyInternalError -> "InternalError"
      [] OTHER -> "AccessDenied"

ToS3ErrorMessage(reason) ==
    CASE reason = DenyTenantBoundary ->
            "Access denied: resource is outside your tenant boundary"
      [] reason = DenyPolicy -> "Access denied: action not permitted by policy"
      [] reason = DenyInvalidResource -> "Invalid resource"
      [] reason = DenyAuthFailed ->
            "The request signature we calculated does not match the signature you provided"
      [] reason = DenyInternalError ->
            "We encountered an internal error. Please try again."
      [] OTHER -> "Access Denied"

\* faulty variant: every reason is answered 403
HTTPStatusCode_Forbidden(reason) == 403

HTTPStatusCode(reason) ==
    CASE reason = DenyAuthFailed -> 403
      [] reason = DenyTenantBoundary -> 403
      [] reason = DenyPolicy -> 403
      [] reason = DenyInvalidResource -> 400
      [] reason = DenyInternalError -> 500
      [] OTHER -> 403

\* WriteS3Error: the status line, headers and XML document written to w
WriteS3Error(reason, resource, requestID) ==
    [StatusCode |-> HTTPStatusCode(reason), ContentType |-> "application/xml",
     Code |-> ToS3ErrorCode(reason), Message |-> ToS3ErrorMessage(reason),
     Resource |-> resource, RequestID |-> requestID, Body |-> <<>>]

WriteS3ErrorFromCode(statusCode, code, message, requestID) ==
    [StatusCode |-> statusCode, ContentType |-> "application/xml",
     Code |-> code, Message |-> message,
     Resource |-> <<>>, RequestID |-> requestID, Body |-> <<>>]

(***************************************************************************)
(* internal/audit: entries.  Timestamp and DurationMs are clock readings   *)
(* and are left out.                                                       *)
(***************************************************************************)
buildResourceARN(bucket, key) ==
    IF key = <<>> THEN ArnPrefix \o bucket
    ELSE ArnPrefix \o bucket \o <<"/">> \o key

NewAllowEntry(requestID, clientID, tenantID, action, bucket, key, sourceIP, userAgent, statusCode) ==
    [RequestID |-> requestID, ClientID |-> clientID, TenantID |-> tenantID,
     Action |-> action, Resource |-> buildResourceARN(bucket, key),
     Bucket |-> bucket, Key |-> key, Decision |-> "allow", DenyReason |-> "",
     SourceIP |-> sourceIP, UserAgent |-> userAgent,
     StatusCode |-> statusCode, ErrorMsg |-> <<>>]

NewDenyEntry(requestID, clientID, tenantID, action, bucket, key, sourceIP, userAgent, denyReason) ==
    [RequestID |-> requestID, ClientID |-> clientID, TenantID |-> tenantID,
     Action |-> action, Resource |-> buildResourceARN(bucket, key),
     Bucket |-> bucket, Key |-> key, Decision |-> "deny",
     DenyReason |-> denyReason,
     SourceIP |-> sourceIP, UserAgent |-> userAgent,
     StatusCode |-> 0, ErrorMsg |-> <<>>]

(***************************************************************************)
(* internal/proxy: gateway handler                                         *)
(***************************************************************************)
RECURSIVE TrimLeft(_)
TrimLeft(s) == IF s # <<>> /\ Head(s) = " " THEN TrimLeft(Tail(s)) ELSE s

RECURSIVE TrimRight(_)
TrimRight(s) ==
    IF s # <<>> /\ s[Len(s)] = " " THEN TrimRight(SubSeq(s, 1, Len(s) - 1)) ELSE s

TrimSpace(s) == TrimRight(TrimLeft(s))

LastIndexOf(s, c) ==
    IF \E i \in 1..Len(s) : s[i] = c
    THEN CHOOSE i \in 1..Len(s) : s[i] = c /\ \A j \in (i + 1)..Len(s) : s[j] # c
    ELSE 0

Contains(s, sub) ==
    \E i \in 0..(Len(s) - Len(sub)) : SubSeq(s, i + 1, i + Len(sub)) = sub

\* getClientIP: X-Forwarded-For's first entry, else X-Real-IP, else the peer
\* address without its port
getClientIP(r) ==
    IF r.XForwardedFor # <<>>
    THEN TrimSpace(SplitN2(r.XForwardedFor, ",")[1])
    ELSE IF r.XRealIP # <<>> THEN r.XRealIP
    ELSE LET colonIdx == LastIndexOf(r.RemoteAddr, ":")
         IN  IF colonIdx # 0 THEN SubSeq(r.RemoteAddr, 1, colonIdx - 1)
             ELSE r.RemoteAddr

\* faulty variant: the credential is looked up but the signature never validated
authenticate_Unverified(r, bodyBytes) ==
    IF r.Authorization.kind = "absent"
    THEN [err |-> "missing Authorization header", ctx |-> <<>>]
    ELSE IF ParseAuthHeader(r.Authorization) = <<>>
    THEN [err |-> "invalid Authorization header format", ctx |-> <<>>]
    ELSE LET accessKey == ParseAuthHeader(r.Authorization)[1].AccessKey
         IN  IF accessKey \notin DOMAIN credentials
             THEN [err |-> "credential not found for access key", ctx |-> <<>>]
             ELSE LET cred == credentials[accessKey]
                  IN  [err |-> "",
                       ctx |-> <<[ClientID |-> cred.ClientID,
                                  TenantID |-> cred.TenantID,
                                  AccessKey |-> cred.AccessKey,
                                  Policies |-> cred.Policies,
                                  Scopes |-> cred.Scopes]>>]

\* authenticate: [err, ctx]; err is "" and ctx is <<AuthContext>> on success.
\* bodyBytes is what the body stream still holds when ParseAndValidate runs.
authenticate(r, bodyBytes) ==
    IF r.Authorization.kind = "absent"
    THEN [err |-> "missing Authorization header", ctx |-> <<>>]
    ELSE IF ParseAuthHeader(r.Authorization) = <<>>
    THEN [err |-> "invalid Authorization header format", ctx |-> <<>>]
    ELSE LET accessKey == ParseAuthHeader(r.Authorization)[1].AccessKey
         IN  IF accessKey \notin DOMAIN credentials
             THEN [err |-> "credential not found for access key", ctx |-> <<>>]
             ELSE LET cred == credentials[accessKey]
                      e == ParseAndValidate(r, bodyBytes, cred)
                  IN  IF e # "" THEN [err |-> e, ctx |-> <<>>]
                      ELSE [err |-> "",
                            ctx |-> <<[ClientID |-> cred.ClientID,
                                       TenantID |-> cred.TenantID,
                                       AccessKey |-> cred.AccessKey,
                                       Policies |-> cred.Policies,
                                       Scopes |-> cred.Scopes]>>]

\* whether authenticate drains the body stream (and puts a rewound copy in r.Body)
authenticateReadsBody(r) ==
    /\ r.Authorization.kind # "absent"
    /\ ParseAuthHeader(r.Authorization) # <<>>
    /\ ParseAuthHeader(r.Authorization)[1].AccessKey \in DOMAIN credentials
    /\ ReadsBody(r, credentials[ParseAuthHeader(r.Authorization)[1].AccessKey])

\* faulty variant: a credential without scopes is taken as unrestricted
checkTenantBoundary_EmptyOpen(ctx, sreq) ==
    IF Len(ctx.Scopes) = 0 THEN TRUE
    ELSE MatchScope(sreq.Bucket, ctx.Scopes)

\* faulty variant: the scopes are looked up in the credential store again
checkTenantBoundary_Relookup(ctx, sreq) ==
    IF ctx.AccessKey \notin DOMAIN credentials THEN FALSE
    ELSE IF Len(credentials[ctx.AccessKey].Scopes) = 0 THEN FALSE
    ELSE MatchScope(sreq.Bucket, credentials[ctx.AccessKey].Scopes)

checkTenantBoundary(ctx, sreq) ==
    IF Len(ctx.Scopes) = 0 THEN FALSE
    ELSE MatchScope(sreq.Bucket, ctx.Scopes)

\* faulty variant: the empty-bucket check is missing
bucketIsEmpty_Never(sreq) == FALSE

\* ServeHTTP's test for a request that names no bucket
bucketIsEmpty(sreq) == sreq.Bucket = <<>>

\* What a terminal path of ServeHTTP does, in order: the entries it passes to
\* auditLogger.Log, the response it writes, and the calls as events.

\* faulty variant: the error that caused the denial is put in the response
handleError_ErrInMessage(requestID, clientID, tenantID, sreq, reason, err, r) ==
    LET bucket == IF sreq # <<>> THEN sreq[1].Bucket ELSE <<>>
        key == IF sreq # <<>> THEN sreq[1].Key ELSE <<>>
        action == IF sreq # <<>> THEN sreq[1].Action ELSE <<>>
    IN  [audit |-> <<NewDenyEntry(requestID, clientID, tenantID, action, bucket,
                                  key, getClientIP(r), r.UserAgent, reason)>>,
         response |-> [WriteS3Error(reason, bucket \o <<"/">> \o key, requestID)
                       EXCEPT !.Message = err],
         events |-> <<"audit", "write">>]

\* faulty variant: the denial is written to the client but not audited
handleError_NoAudit(requestID, clientID, tenantID, sreq, reason, err, r) ==
    LET bucket == IF sreq # <<>> THEN sreq[1].Bucket ELSE <<>>
        key == IF sreq # <<>> THEN sreq[1].Key ELSE <<>>
    IN  [audit |-> <<>>,
         response |-> WriteS3Error(reason, bucket \o <<"/">> \o key, requestID),
         events |-> <<"write">>]

\* faulty variant: the denial entry carries the secret key the signature was
\* checked against
handleError_LogsSecret(requestID, clientID, tenantID, sreq, reason, err, r) ==
    LET bucket == IF sreq # <<>> THEN sreq[1].Bucket ELSE <<>>
        key == IF sreq # <<>> THEN sreq[1].Key ELSE <<>>
        action == IF sreq # <<>> THEN sreq[1].Action ELSE <<>>
        named == IF ParseAuthHeader(r.Authorization) = <<>> THEN ""
                 ELSE ParseAuthHeader(r.Authorization)[1].AccessKey
        entry == NewDenyEntry(requestID, clientID, tenantID, action, bucket,
                              key, getClientIP(r), r.UserAgent, reason)
    IN  [audit |-> <<IF named \in DOMAIN credentials
                     THEN [entry EXCEPT !.ErrorMsg = <<credentials[named].SecretKey>>]
                     ELSE entry>>,
         response |-> WriteS3Error(reason, bucket \o <<"/">> \o key, requestID),
         events |-> <<"audit", "write">>]

\* handleError; err is the error's text ("" for nil), which it does not use
handleError(requestID, clientID, tenantID, sreq, reason, err, r) ==
    LET bucket == IF sreq # <<>> THEN sreq[1].Bucket ELSE <<>>
        key == IF sreq # <<>> THEN sreq[1].Key ELSE <<>>
        action == IF sreq # <<>> THEN sreq[1].Action ELSE <<>>
    IN  [audit |-> <<NewDenyEntry(requestID, clientID, tenantID, action, bucket,
                                  key, getClientIP(r), r.UserAgent, reason)>>,
         response |-> WriteS3Error(reason, bucket \o <<"/">> \o key, requestID),
         events |-> <<"audit", "write">>]

\* faulty variant: the backend failure is reported as a denial of the gateway
handleS3Error_AsDenial(requestID, clientID, tenantID, sreq, err, r) ==
    handleError(requestID, clientID, tenantID, sreq, DenyInternalError, err, r)

handleS3Error(requestID, clientID, tenantID, sreq, err, r) ==
    LET entry == [NewDenyEntry(requestID, clientID, tenantID, sreq[1].Action,
                               sreq[1].Bucket, sreq[1].Key, getClientIP(r),
                               r.UserAgent, "S3_ERROR")
                  EXCEPT !.ErrorMsg = err]
        resp == IF Contains(err, <<"N", "o", "S", "u", "c", "h", "K", "e", "y">>) \/ Contains(err, <<"N", "o", "t", "F", "o", "u", "n", "d">>)
                THEN WriteS3ErrorFromCode(404, "NoSuchKey",
                                          "The specified key does not exist.", requestID)
                ELSE IF Contains(err, <<"N", "o", "S", "u", "c", "h", "B", "u", "c", "k", "e", "t">>)
                THEN WriteS3ErrorFromCode(404, "NoSuchBucket",
                                          "The specified bucket does not exist.", requestID)
                ELSE WriteS3ErrorFromCode(500, "InternalError",
                                          "We encountered an internal error. Please try again.",
                                          requestID)
    IN  [audit |-> <<entry>>, response |-> resp, events |-> <<"audit", "write">>]

\* writeResponse: backend status, headers and body copied to w
writeResponse(resp, requestID) ==
    [StatusCode |-> resp.StatusCode, ContentType |-> resp.ContentType,
     Code |-> "", Message |-> "", Resource |-> <<>>,
     RequestID |-> requestID, Body |-> resp.Body]

\* the tail of ServeHTTP after a successful Forward
handleSuccess(requestID, ctx, sreq, resp, r) ==
    [audit |-> <<NewAllowEntry(requestID, ctx.ClientID, ctx.TenantID,
                               sreq[1].Action, sreq[1].Bucket, sreq[1].Key,
                               getClientIP(r), r.UserAgent, resp.StatusCode)>>,
     response |-> writeResponse(resp, requestID),
     events |-> <<"audit", "write">>]

(***************************************************************************)
(* internal/proxy: forwarder                                               *)
(***************************************************************************)
\* S3Client.Forward: the backend operation an action is sent to, "" if the
\* switch has no case for it
ForwardOperation(action) ==
    CASE action = <<"s", "3", ":", "G", "e", "t", "O", "b", "j", "e", "c", "t">> -> "GetObject"
      [] action = <<"s", "3", ":", "P", "u", "t", "O", "b", "j", "e", "c", "t">> -> "PutObject"
      [] action = <<"s", "3", ":", "D", "e", "l", "e", "t", "e", "O", "b", "j", "e", "c", "t">> -> "DeleteObject"
      [] action = <<"s", "3", ":", "L", "i", "s", "t", "B", "u", "c", "k", "e", "t">> -> "ListObjectsV2"
      [] action = <<"s", "3", ":", "H", "e", "a", "d", "O", "b", "j", "e", "c", "t">> -> "HeadObject"
      [] OTHER -> ""

UnsupportedAction(action) == <<"u", "n", "s", "u", "p", "p", "o", "r", "t", "e", "d", " ", "a", "c", "t", "i", "o", "n", ":", " ">> \o action

\* the S3Response each operation builds when the backend call succeeds
ForwardResponse(op) ==
    [StatusCode |-> IF op = "DeleteObject" THEN 204 ELSE 200,
     ContentType |-> IF op = "ListObjectsV2" THEN "application/xml" ELSE "",
     Body |-> IF op = "GetObject" THEN <<"o">> ELSE <<>>]

\* error messages the backing store may answer with
BackendErrors ==
    {<<"N", "o", "S", "u", "c", "h", "K", "e", "y">>, <<"N", "o", "S", "u", "c", "h", "B", "u", "c", "k", "e", "t">>, <<"N", "o", "t", "F", "o", "u", "n", "d">>, <<"N", "o", "S", "u", "c", "h", "B", "u", "c", "k", "e", "t", " ", "N", "o", "S", "u", "c", "h", "K", "e", "y">>, <<"t", "i", "m", "e", "o", "u", "t">>}

(***************************************************************************)
(* The loaded configuration: credentials and policies after startup.       *)
(***************************************************************************)
NoConditions == [operator \in {} |-> <<>>]

LoadedCredentials ==
    ("AK1" :> [AccessKey |-> "AK1", SecretKey |-> "SK1",
               ClientID |-> "client-1", TenantID |-> "tenant-1",
               Policies |-> <<"rw", "absent", "protect">>,
               Scopes |-> <<<<"s", "/", "p", "r", "e", "/", "*">>, <<"a", "*">>>>])
    @@
    ("AK2" :> [AccessKey |-> "AK2", SecretKey |-> "SK2",
               ClientID |-> "client-2", TenantID |-> "tenant-2",
               Policies |-> <<"rw">>,
               Scopes |-> <<>>])

LoadedPolicies ==
    ("rw" :> [Name |-> "rw", Version |-> "2012-10-17",
              Statements |-> <<
                [Sid |-> "AllowAll", Effect |-> EffectAllow,
                 Actions |-> <<<<"s", "3", ":", "*">>>>,
                 Resources |-> <<<<"a", "r", "n", ":", "a", "w", "s", ":", "s", "3", ":", ":", ":", "a", "*">>>>,
                 Conditions |-> NoConditions]>>])
    @@
    ("protect" :> [Name |-> "protect", Version |-> "2012-10-17",
              Statements |-> <<
                [Sid |-> "DenyWriteProtected", Effect |-> EffectDeny,
                 Actions |-> <<<<"s", "3", ":", "P", "u", "t", "*">>, <<"s", "3", ":", "D", "e", "l", "e", "t", "e", "*">>>>,
                 Resources |-> <<<<"a", "r", "n", ":", "a", "w", "s", ":", "s", "3", ":", ":", ":", "*", "/", "p">>>>,
                 Conditions |-> NoConditions]>>])

(***************************************************************************)
(* Clients: the requests that may arrive.  A client builds a request with  *)
(* body Signed, signs it as the AWS SDK does with the secret it holds, and *)
(* the request arrives with body Sent (Sent # Signed: changed in flight).  *)
(* Signed and Sent record that history; the gateway reads neither.         *)
(***************************************************************************)
Methods == {MethodGet, MethodPut, MethodDelete}
Paths == {<<"/", "h", "e", "a", "l", "t", "h">>, <<"/">>, <<"/", "a", "b">>, <<"/", "a", "b", "/", "k">>, <<"/", "a", "b", "/", "p">>, <<"/", "b", "/", "k">>}
Queries == {{}, {"acl"}}
Signers == {[AccessKey |-> "AK1", SecretKey |-> "SK1"],
            [AccessKey |-> "AK1", SecretKey |-> "SK2"],
            [AccessKey |-> "AK2", SecretKey |-> "SK2"],
            [AccessKey |-> "AK9", SecretKey |-> "SK1"]}
AuthKinds == {"absent", "malformed", "sigv4"}
AmzDates == {<<>>, <<0>>, <<ClockSkew + 1>>, <<0 - ClockSkew - 1>>}
BodyPairs == {<<(<<>>), (<<>>)>>, <<(<<"x">>), (<<"x">>)>>, <<(<<"x">>), (<<"y">>)>>}
ForwardedFor == {<<>>, <<"1", ",", " ", "2">>}
RequestIDs == {"req-1", "req-2"}

SignedHeadersOf(withSha) ==
    IF withSha THEN <<"host", "x-amz-content-sha256", "x-amz-date">>
    ELSE <<"host", "x-amz-date">>

MakeRequest(m, p, q, kind, signer, date, withSha, bodies, xff) ==
    LET comps == [AccessKey |-> signer.AccessKey, Date |-> "20240101",
                  Region |-> "us-east-1", Service |-> "s3",
                  SignedHeaders |-> SignedHeadersOf(withSha), Signature |-> <<>>]
        none == [kind |-> kind, AccessKey |-> "", Date |-> "", Region |-> "",
                 Service |-> "", SignedHeaders |-> <<>>, Signature |-> <<>>]
        built == [Method |-> m, Path |-> p, Query |-> q, Host |-> "gateway",
                  AmzDate |-> date,
                  ContentSha256 |-> IF withSha THEN <<hashSHA256(bodies[1])>> ELSE <<>>,
                  XForwardedFor |-> xff, XRealIP |-> <<>>, RemoteAddr |-> <<"9", ":", "8", "0">>,
                  UserAgent |-> "aws-sdk", Body |-> 1, Authorization |-> none,
                  Signed |-> bodies[1], Sent |-> bodies[2]]
        sig == computeSignature(built, bodies[1], signer.SecretKey, comps,
                                IF date = <<>> THEN 0 ELSE date[1])
    IN  IF kind = "sigv4"
        THEN [built EXCEPT !.Authorization =
                 [kind |-> "sigv4", AccessKey |-> comps.AccessKey,
                  Date |-> comps.Date, Region |-> comps.Region,
                  Service |-> comps.Service,
                  SignedHeaders |-> comps.SignedHeaders, Signature |-> sig]]
        ELSE built

Requests ==
    {MakeRequest(m, p, q, kind, signer, date, withSha, bodies, xff) :
        m \in Methods, p \in Paths, q \in Queries, kind \in AuthKinds,
        signer \in Signers, date \in AmzDates, withSha \in BOOLEAN,
        bodies \in BodyPairs, xff \in ForwardedFor}

\* the requests of the probing scenario: bodies arrive as signed
ProbeRequests ==
    {MakeRequest(m, p, {}, kind, signer, date, FALSE, <<(<<>>), (<<>>)>>, xff) :
        m \in {MethodGet, MethodPut}, p \in Paths, kind \in AuthKinds,
        signer \in Signers, date \in {<<0>>, <<ClockSkew + 1>>},
        xff \in ForwardedFor}

(***************************************************************************)
(* Gateway.ServeHTTP, one request at a time                                *)
(***************************************************************************)
Init ==
    /\ credentials = LoadedCredentials
    /\ policies = LoadedPolicies
    /\ pc = "idle"
    /\ req = <<>>
    /\ requestId = ""
    /\ streams = <<>>
    /\ s3req = <<>>
    /\ authErr = ""
    /\ authCtx = <<>>
    /\ evalCtx = <<>>
    /\ policyNames = <<>>
    /\ decision = <<>>
    /\ trace = <<>>
    /\ auditLog = <<>>
    /\ response = <<>>
    /\ backend = <<>>
    /\ prev = <<>>
    /\ args = <<>>
    /\ result = <<>>
    /\ locks = <<>>
    /\ threads = <<>>
    /\ sinks = <<>>

\* what an observer of the client response and of the audit log learns from
\* the request just handled, apart from the request id
Observed ==
    [Method |-> req.Method, Path |-> req.Path, Query |-> req.Query,
     XForwardedFor |-> req.XForwardedFor, XRealIP |-> req.XRealIP,
     RemoteAddr |-> req.RemoteAddr, UserAgent |-> req.UserAgent,
     authErr |-> authErr,
     response |-> [response[1] EXCEPT !.RequestID = ""],
     audit |-> [i \in 1..Len(auditLog) |-> [auditLog[i] EXCEPT !.RequestID = ""]]]

\* a request arrives and ServeHTTP starts: fresh request id, body unread
AcceptFrom(incoming) ==
    /\ pc = "idle"
    /\ \E r \in incoming, id \in RequestIDs :
        /\ req' = r
        /\ requestId' = id
        /\ streams' = <<r.Sent>>
    /\ pc' = "start"
    /\ UNCHANGED <<sinks, locks, threads, args, result, credentials, policies, s3req, authErr, authCtx, evalCtx,
                   policyNames, decision, trace, auditLog, response, backend, prev>>

Accept == AcceptFrom(Requests)

AcceptProbe == AcceptFrom(ProbeRequests)

\* ServeHTTP returns: the request's state is gone
ReturnWith(remembered) ==
    /\ pc = "done"
    /\ pc' = "idle"
    /\ req' = <<>>
    /\ requestId' = ""
    /\ streams' = <<>>
    /\ s3req' = <<>>
    /\ authErr' = ""
    /\ authCtx' = <<>>
    /\ evalCtx' = <<>>
    /\ policyNames' = <<>>
    /\ decision' = <<>>
    /\ trace' = <<>>
    /\ auditLog' = <<>>
    /\ response' = <<>>
    /\ backend' = <<>>
    /\ prev' = remembered
    /\ UNCHANGED <<sinks, locks, threads, args, result, credentials, policies>>

Return == ReturnWith(prev)

\* as Return, with the observer remembering the last authentication failure
ReturnProbe == ReturnWith(IF authErr # "" THEN <<Observed>> ELSE prev)

\* a terminal path: Log, then the response
Finish(eff) ==
    /\ auditLog' = auditLog \o eff.audit
    /\ response' = <<eff.response>>
    /\ pc' = "done"

\* faulty variant: every path under /health is the health check
IsHealthCheck_Prefix(path) == HasPrefix(path, <<"/", "h", "e", "a", "l", "t", "h">>)

\* r.URL.Path == "/health"
IsHealthCheck(path) == path = <<"/", "h", "e", "a", "l", "t", "h">>

HealthCheck ==
    /\ pc = "start"
    /\ IsHealthCheck(req.Path)
    /\ response' = <<[StatusCode |-> 200, ContentType |-> "", Code |-> "",
                      Message |-> "", Resource |-> <<>>,
                      RequestID |-> requestId, Body |-> <<"O", "K">>]>>
    /\ trace' = trace \o <<"write">>
    /\ pc' = "done"
    /\ UNCHANGED <<sinks, locks, threads, args, result, credentials, policies, req, requestId, streams, s3req, authErr,
                   authCtx, evalCtx, policyNames, decision, auditLog, backend, prev>>

ParseRequest ==
    /\ pc = "start"
    /\ ~IsHealthCheck(req.Path)
    /\ LET parsed == <<ParseS3Request(req)>>
       IN  /\ s3req' = parsed
           /\ IF bucketIsEmpty(parsed[1])
              THEN LET eff == handleError(requestId, "", "", parsed,
                                          DenyInvalidResource, "", req)
                   IN  /\ Finish(eff)
                       /\ trace' = trace \o <<"parse">> \o eff.events
              ELSE /\ pc' = "authenticate"
                   /\ trace' = trace \o <<"parse">>
                   /\ UNCHANGED <<auditLog, response>>
    /\ UNCHANGED <<sinks, locks, threads, args, result, credentials, policies, req, requestId, streams, authErr, authCtx,
                   evalCtx, policyNames, decision, backend, prev>>

Authenticate ==
    /\ pc = "authenticate"
    /\ LET bodyBytes == streams[req.Body]
           res == authenticate(req, bodyBytes)
           reads == authenticateReadsBody(req)
       IN  /\ authErr' = res.err
           /\ authCtx' = res.ctx
           \* io.ReadAll drains the stream; req.Body becomes a new reader
           \* over the bytes read
           /\ streams' = IF reads
                         THEN Append([streams EXCEPT ![req.Body] = <<>>], bodyBytes)
                         ELSE streams
           /\ req' = IF reads THEN [req EXCEPT !.Body = Len(streams) + 1] ELSE req
           /\ IF res.err # ""
              THEN LET eff == handleError(requestId, "", "", s3req,
                                          DenyAuthFailed, res.err, req)
                   IN  /\ Finish(eff)
                       /\ trace' = trace \o <<"authenticate">> \o eff.events
              ELSE /\ pc' = "tenant"
                   /\ trace' = trace \o <<"authenticate">>
                   /\ UNCHANGED <<auditLog, response>>
    /\ UNCHANGED <<sinks, locks, threads, args, result, credentials, policies, requestId, s3req, evalCtx, policyNames,
                   decision, backend, prev>>

CheckTenant ==
    /\ pc = "tenant"
    /\ IF ~checkTenantBoundary(authCtx[1], s3req[1])
       THEN LET eff == handleError(requestId, authCtx[1].ClientID,
                                   authCtx[1].TenantID, s3req,
                                   DenyTenantBoundary, "", req)
            IN  /\ Finish(eff)
                /\ trace' = trace \o <<"scope">> \o eff.events
       ELSE /\ pc' = "policy"
            /\ trace' = trace \o <<"scope">>
            /\ UNCHANGED <<auditLog, response>>
    /\ UNCHANGED <<sinks, locks, threads, args, result, credentials, policies, req, requestId, streams, s3req, authErr,
                   authCtx, evalCtx, policyNames, decision, backend, prev>>

EvaluatePolicy ==
    /\ pc = "policy"
    /\ LET ctx == [ClientID |-> authCtx[1].ClientID,
                   TenantID |-> authCtx[1].TenantID,
                   Action |-> s3req[1].Action,
                   Resource |-> ToARN(s3req[1]),
                   Bucket |-> s3req[1].Bucket,
                   Key |-> s3req[1].Key,
                   Conditions |-> ("aws:SourceIp" :> getClientIP(req))]
           d == Evaluate(ctx, authCtx[1].Policies)
       IN  /\ evalCtx' = <<ctx>>
           /\ policyNames' = authCtx[1].Policies
           /\ decision' = <<d>>
           /\ IF ~d.Allowed
              THEN LET eff == handleError(requestId, authCtx[1].ClientID,
                                          authCtx[1].TenantID, s3req,
                                          d.DenyReason, "", req)
                   IN  /\ Finish(eff)
                       /\ trace' = trace \o <<"evaluate">> \o eff.events
              ELSE /\ pc' = "forward"
                   /\ trace' = trace \o <<"evaluate">>
                   /\ UNCHANGED <<auditLog, response>>
    /\ UNCHANGED <<sinks, locks, threads, args, result, credentials, policies, req, requestId, streams, s3req, authErr,
                   authCtx, backend, prev>>

\* Forward and the rest of ServeHTTP.  The forwarder hands s3req.Body to
\* PutObject, which reads that stream to its end.  Each backend call is
\* recorded with the error it returned (<<>> for nil).
ForwardRequest ==
    /\ pc = "forward"
    /\ LET op == ForwardOperation(s3req[1].Action)
           sent == IF op = "PutObject" THEN streams[s3req[1].Body] ELSE <<>>
           call == [Operation |-> op, Bucket |-> s3req[1].Bucket,
                    Key |-> s3req[1].Key, Body |-> sent, Error |-> <<>>]
       IN  IF op = ""
           THEN LET eff == handleS3Error(requestId, authCtx[1].ClientID,
                                         authCtx[1].TenantID, s3req,
                                         UnsupportedAction(s3req[1].Action), req)
                IN  /\ Finish(eff)
                    /\ trace' = trace \o <<"forward">> \o eff.events
                    /\ UNCHANGED <<backend, streams>>
           ELSE /\ streams' = IF op = "PutObject"
                              THEN [streams EXCEPT ![s3req[1].Body] = <<>>]
                              ELSE streams
                /\ \/ LET eff == handleSuccess(requestId, authCtx[1], s3req,
                                               ForwardResponse(op), req)
                      IN  /\ backend' = Append(backend, call)
                          /\ Finish(eff)
                          /\ trace' = trace \o <<"forward">> \o eff.events
                   \/ \E err \in BackendErrors :
                        LET eff == handleS3Error(requestId, authCtx[1].ClientID,
                                                 authCtx[1].TenantID, s3req, err, req)
                        IN  /\ backend' = Append(backend, [call EXCEPT !.Error = <<err>>])
                            /\ Finish(eff)
                            /\ trace' = trace \o <<"forward">> \o eff.events
    /\ UNCHANGED <<sinks, locks, threads, args, result, credentials, policies, req, requestId, s3req, authErr, authCtx,
                   evalCtx, policyNames, decision, prev>>

Handle ==
    \/ HealthCheck
    \/ ParseRequest
    \/ Authenticate
    \/ CheckTenant
    \/ EvaluatePolicy
    \/ ForwardRequest

Next == Accept \/ Handle \/ Return

Spec == Init /\ [][Next]_vars

\* the same gateway, observed by a client probing for credentials
NextProbe == AcceptProbe \/ Handle \/ ReturnProbe

SpecProbe == Init /\ [][NextProbe]_vars

(***************************************************************************)
(* The policy engine alone: Evaluate applied to drawn stores, contexts and *)
(* policy-name lists.                                                      *)
(***************************************************************************)
RECURSIVE SeqsUpTo(_, _)
SeqsUpTo(S, n) ==
    IF n = 0 THEN {<<>>}
    ELSE LET shorter == SeqsUpTo(S, n - 1)
         IN  shorter \cup {Append(s, x) : s \in shorter, x \in S}

EvalStatements ==
    {[Sid |-> "AllowGet", Effect |-> EffectAllow,
      Actions |-> <<<<"s", "3", ":", "G", "e", "t", "*">>>>, Resources |-> <<<<"a", "r", "n", ":", "a", "w", "s", ":", "s", "3", ":", ":", ":", "b", "/", "*">>>>,
      Conditions |-> NoConditions],
     [Sid |-> "DenyGet", Effect |-> EffectDeny,
      Actions |-> <<<<"s", "3", ":", "G", "e", "t", "*">>>>, Resources |-> <<<<"a", "r", "n", ":", "a", "w", "s", ":", "s", "3", ":", ":", ":", "b", "/", "*">>>>,
      Conditions |-> NoConditions],
     [Sid |-> "AllowFromOffice", Effect |-> EffectAllow,
      Actions |-> <<<<"s", "3", ":", "P", "u", "t", "*">>, <<"s", "3", ":", "G", "e", "t", "*">>>>, Resources |-> <<<<"a", "r", "n", ":", "a", "w", "s", ":", "s", "3", ":", ":", ":", "*">>>>,
      Conditions |-> ("StringEquals" :> ("aws:SourceIp" :> <<"1">>))],
     [Sid |-> "DenyFromOffice", Effect |-> EffectDeny,
      Actions |-> <<<<"s", "3", ":", "P", "u", "t", "*">>, <<"s", "3", ":", "G", "e", "t", "*">>>>, Resources |-> <<<<"a", "r", "n", ":", "a", "w", "s", ":", "s", "3", ":", ":", ":", "*">>>>,
      Conditions |-> ("StringEquals" :> ("aws:SourceIp" :> <<"1">>))]}

\* stores holding policies p1 and p2 with at most MaxStatements statements in all
EvalStores ==
    {("p1" :> [Name |-> "p1", Version |-> "v", Statements |-> s1])
     @@ ("p2" :> [Name |-> "p2", Version |-> "v", Statements |-> s2]) :
        s1 \in SeqsUpTo(EvalStatements, MaxStatements),
        s2 \in SeqsUpTo(EvalStatements, MaxStatements)}

EvalStoresBounded ==
    {st \in EvalStores :
        Len(st["p1"].Statements) + Len(st["p2"].Statements) <= MaxStatements}

EvalContexts ==
    {[ClientID |-> "client-1", TenantID |-> "tenant-1", Action |-> a,
      Resource |-> BuildResourceARN(b, <<"k">>), Bucket |-> b, Key |-> <<"k">>,
      Conditions |-> ("aws:SourceIp" :> ip)] :
        a \in {<<"s", "3", ":", "G", "e", "t", "O", "b", "j", "e", "c", "t">>, <<"s", "3", ":", "P", "u", "t", "O", "b", "j", "e", "c", "t">>}, b \in {<<"b">>, <<"c">>},
        ip \in {<<"1">>, <<"2">>}}

\* p3 is in no store
EvalNameLists == SeqsUpTo({"p1", "p2", "p3"}, MaxNames)

InitEval ==
    /\ credentials = LoadedCredentials
    /\ policies \in EvalStoresBounded
    /\ pc = "evaluate"
    /\ req = <<>>
    /\ requestId = ""
    /\ streams = <<>>
    /\ s3req = <<>>
    /\ authErr = ""
    /\ authCtx = <<>>
    /\ evalCtx \in {<<c>> : c \in EvalContexts}
    /\ policyNames \in EvalNameLists
    /\ decision = <<>>
    /\ trace = <<>>
    /\ auditLog = <<>>
    /\ response = <<>>
    /\ backend = <<>>
    /\ prev = <<>>
    /\ args = <<>>
    /\ result = <<>>
    /\ locks = <<>>
    /\ threads = <<>>
    /\ sinks = <<>>

EvaluateCall ==
    /\ pc = "evaluate"
    /\ decision' = <<Evaluate(evalCtx[1], policyNames)>>
    /\ pc' = "evaluated"
    /\ UNCHANGED <<sinks, locks, threads, args, result, credentials, policies, req, requestId, streams, s3req, authErr,
                   authCtx, evalCtx, policyNames, trace, auditLog, response,
                   backend, prev>>

NextEval == EvaluateCall

SpecEval == InitEval /\ [][NextEval]_vars

(***************************************************************************)
(* Reference semantics used to state the properties: wildcard matching by  *)
(* direct recursion on the pattern ("*" any run of characters, "?" exactly *)
(* one), and statement matching on top of it.                              *)
(***************************************************************************)
RECURSIVE GlobMatch(_, _)
GlobMatch(s, p) ==
    IF p = <<>> THEN s = <<>>
    ELSE IF Head(p) = "*"
        THEN GlobMatch(s, Tail(p)) \/ (s # <<>> /\ GlobMatch(Tail(s), p))
    ELSE IF Head(p) = "?" THEN s # <<>> /\ GlobMatch(Tail(s), Tail(p))
    ELSE s # <<>> /\ Head(s) = Head(p) /\ GlobMatch(Tail(s), Tail(p))

BeforeSlash(s) == IF IndexOf(s, "/") = 0 THEN s ELSE SubSeq(s, 1, IndexOf(s, "/") - 1)

ScopeAdmits(bucket, scopes) ==
    \E i \in 1..Len(scopes) : GlobMatch(bucket, BeforeSlash(scopes[i]))

ConditionHolds(operator, actual, expected) ==
    \/ operator = "StringEquals" /\ actual = expected
    \/ operator = "StringNotEquals" /\ actual # expected
    \/ operator = "StringLike" /\ GlobMatch(actual, expected)
    \/ operator = "StringNotLike" /\ ~GlobMatch(actual, expected)

Applies(ctx, stmt) ==
    /\ \E i \in 1..Len(stmt.Actions) : GlobMatch(ctx.Action, stmt.Actions[i])
    /\ \E i \in 1..Len(stmt.Resources) : GlobMatch(ctx.Resource, stmt.Resources[i])
    /\ \A operator \in DOMAIN stmt.Conditions :
        \A key \in DOMAIN stmt.Conditions[operator] :
            /\ key \in DOMAIN ctx.Conditions
            /\ ConditionHolds(operator, ctx.Conditions[key],
                              stmt.Conditions[operator][key])

\* <<i, j>>: statement j of the i-th named policy exists, applies and has the effect
Positions(ctx, names, effect) ==
    UNION {{<<i, j>> : j \in {k \in 1..Len(policies[names[i]].Statements) :
                                /\ policies[names[i]].Statements[k].Effect = effect
                                /\ Applies(ctx, policies[names[i]].Statements[k])}} :
           i \in {n \in 1..Len(names) : names[n] \in DOMAIN policies}}

Earlier(a, b) == a[1] < b[1] \/ (a[1] = b[1] /\ a[2] < b[2])

PolicyAdmits(ctx, names) ==
    /\ Positions(ctx, names, EffectAllow) # {}
    /\ Positions(ctx, names, EffectDeny) = {}

Count(s, e) == Cardinality({i \in DOMAIN s : s[i] = e})

IsCheck(e) == e \notin {"audit", "write"}

\* the checks and the forward call made so far, in order
Checks == SelectSeq(trace, IsCheck)

CheckOrder == <<"parse", "authenticate", "scope", "evaluate", "forward">>

DenyReasons == {DenyTenantBoundary, DenyPolicy, DenyInvalidResource,
                DenyAuthFailed, DenyInternalError}

HealthPath == <<"/", "h", "e", "a", "l", "t", "h">>

\* what the request asks for, read off the request itself
AskedBucket == parsePath(req.Path)[1]
AskedKey == parsePath(req.Path)[2]
AskedCtx ==
    [Action |-> determineAction(req.Method, AskedBucket, AskedKey, req.Query),
     Resource |-> ArnPrefix \o AskedBucket
                  \o (IF AskedKey = <<>> THEN <<>> ELSE <<"/">> \o AskedKey),
     Conditions |-> ("aws:SourceIp" :> getClientIP(req))]

\* the credential the request names, << >> if the store has none
NamedCredential ==
    IF req.Authorization.kind = "sigv4" /\ req.Authorization.AccessKey \in DOMAIN credentials
    THEN <<credentials[req.Authorization.AccessKey]>>
    ELSE <<>>

\* the request passes signature validation with the bytes given as its body
ValidatesWith(bodyBytes) ==
    /\ NamedCredential # <<>>
    /\ ParseAndValidate(req, bodyBytes, NamedCredential[1]) = ""

Denied(status, code, reason) ==
    /\ response # <<>>
    /\ response[1].StatusCode = status
    /\ response[1].Code = code
    /\ Len(auditLog) = 1
    /\ auditLog[1].Decision = "deny"
    /\ auditLog[1].DenyReason = reason

(***************************************************************************)
(* C1  The forwarder is called at most once per request, and only for a    *)
(* request with a non-empty bucket, a valid signature under a stored       *)
(* credential, a bucket inside that credential's scopes and an allowing    *)
(* policy decision, with the checks made in that order before the call; a  *)
(* request audited with a DENY_* reason never reaches the backend.         *)
(***************************************************************************)
ForwardOnlyAfterAllChecks ==
    /\ Count(trace, "forward") <= 1
    /\ Len(backend) <= 1
    /\ (Count(trace, "forward") = 1 \/ backend # <<>>) =>
        /\ AskedBucket # <<>>
        /\ ValidatesWith(req.Sent)
        /\ ScopeAdmits(AskedBucket, NamedCredential[1].Scopes)
        /\ PolicyAdmits(AskedCtx, NamedCredential[1].Policies)
        /\ decision # <<>> /\ decision[1].Allowed
        /\ Checks = CheckOrder
    /\ (\E i \in DOMAIN auditLog : auditLog[i].DenyReason \in DenyReasons) =>
        /\ Count(trace, "forward") = 0
        /\ backend = <<>>

ForwardedAllowedRequest ==
    /\ pc = "done"
    /\ Len(backend) = 1
    /\ backend[1].Operation = "GetObject"
    /\ response[1].StatusCode = 200
    /\ auditLog[1].Decision = "allow"

(***************************************************************************)
(* C2  Explicit deny wins: if any statement of a named policy in the store *)
(* applies to the request with effect Deny, Evaluate returns Allowed=false *)
(* with reason DENY_POLICY, wherever matching Allow statements stand.      *)
(***************************************************************************)
ExplicitDenyWins ==
    (pc = "evaluated" /\ Positions(evalCtx[1], policyNames, EffectDeny) # {}) =>
        /\ ~decision[1].Allowed
        /\ decision[1].DenyReason = DenyPolicy

DenyAfterEarlierAllow ==
    /\ pc = "evaluated"
    /\ \E d \in Positions(evalCtx[1], policyNames, EffectDeny) :
        \E a \in Positions(evalCtx[1], policyNames, EffectAllow) :
            Earlier(a, d) /\ a[1] < d[1]
    /\ \E d \in Positions(evalCtx[1], policyNames, EffectDeny) :
        \E a \in Positions(evalCtx[1], policyNames, EffectAllow) :
            a[1] = d[1] /\ a[2] < d[2]
    /\ ~decision[1].Allowed

(***************************************************************************)
(* C3  Default deny: if no statement of the named policies applies with    *)
(* effect Allow (the list may be empty or name only unknown policies),     *)
(* Evaluate returns Allowed=false with reason DENY_POLICY.                 *)
(***************************************************************************)
DefaultDeny ==
    (pc = "evaluated" /\ Positions(evalCtx[1], policyNames, EffectAllow) = {}) =>
        /\ ~decision[1].Allowed
        /\ decision[1].DenyReason = DenyPolicy

DeniedWithOnlyUnknownNames ==
    /\ pc = "evaluated"
    /\ policyNames = <<"p3", "p3">>
    /\ ~decision[1].Allowed
    /\ decision[1].MatchedPolicy = ""

(***************************************************************************)
(* C4  If some statement applies with effect Allow and none with effect    *)
(* Deny, Evaluate returns Allowed=true and reports the policy and sid of   *)
(* the first applying Allow in policy-list order, then statement order.    *)
(***************************************************************************)
FirstAllowReported ==
    (pc = "evaluated" /\ PolicyAdmits(evalCtx[1], policyNames)) =>
        LET allows == Positions(evalCtx[1], policyNames, EffectAllow)
            first == CHOOSE a \in allows : \A b \in allows : a = b \/ Earlier(a, b)
        IN  /\ decision[1].Allowed
            /\ decision[1].MatchedPolicy = policyNames[first[1]]
            /\ decision[1].MatchedStatement =
                  policies[policyNames[first[1]]].Statements[first[2]].Sid

AllowedWithTwoCandidates ==
    /\ pc = "evaluated"
    /\ PolicyAdmits(evalCtx[1], policyNames)
    /\ \E a, b \in Positions(evalCtx[1], policyNames, EffectAllow) :
        /\ a[1] < b[1]
        /\ policyNames[a[1]] # policyNames[b[1]]
        /\ policies[policyNames[a[1]]].Statements[a[2]].Sid
             # policies[policyNames[b[1]]].Statements[b[2]].Sid
    /\ decision[1].Allowed

(***************************************************************************)
(* C5  An authenticated request whose bucket none of the credential's      *)
(* scopes admits (always so when there are no scopes) is denied with       *)
(* DENY_TENANT_BOUNDARY; the policy engine and the backend are not called. *)
(***************************************************************************)
TenantBoundaryBeforePolicy ==
    (authCtx # <<>> /\ ~ScopeAdmits(s3req[1].Bucket, authCtx[1].Scopes)) =>
        /\ Count(trace, "evaluate") = 0
        /\ Count(trace, "forward") = 0
        /\ decision = <<>>
        /\ backend = <<>>
        /\ pc \in {"tenant", "done"}
        /\ pc = "done" =>
            /\ Denied(403, "AccessDenied", DenyTenantBoundary)
            /\ response[1].Message
                 = "Access denied: resource is outside your tenant boundary"

DeniedForEmptyScopes ==
    /\ pc = "done"
    /\ authCtx # <<>>
    /\ authCtx[1].Scopes = <<>>
    /\ auditLog[1].DenyReason = DenyTenantBoundary
    /\ Checks = <<"parse", "authenticate", "scope">>

(***************************************************************************)
(* C6  A request that was validly signed and whose body was changed after  *)
(* signing is answered 403 SignatureDoesNotMatch and audited with          *)
(* DENY_AUTH_FAILED, with or without an X-Amz-Content-Sha256 header.       *)
(***************************************************************************)
TamperedBodyRejected ==
    (/\ pc = "done"
     /\ req.Path # HealthPath
     /\ AskedBucket # <<>>
     /\ ValidatesWith(req.Signed)
     /\ req.Sent # req.Signed) =>
        Denied(403, "SignatureDoesNotMatch", DenyAuthFailed)

\* C6, the part the validator does enforce: without the header the hash is
\* taken over the bytes received, and a changed body is rejected
TamperedBodyRejectedWithoutHeader ==
    (/\ pc = "done"
     /\ req.Path # HealthPath
     /\ AskedBucket # <<>>
     /\ ValidatesWith(req.Signed)
     /\ req.Sent # req.Signed
     /\ req.ContentSha256 = <<>>) =>
        Denied(403, "SignatureDoesNotMatch", DenyAuthFailed)

(***************************************************************************)
(* C7  When the validator read the body to hash it (no X-Amz-Content-      *)
(* Sha256 header), the body PutObject receives for an allowed request      *)
(* still yields all the bytes the client sent.                             *)
(***************************************************************************)
ForwardedBodyComplete ==
    \A i \in DOMAIN backend :
        (backend[i].Operation = "PutObject" /\ req.ContentSha256 = <<>>) =>
            backend[i].Body = req.Sent

\* C7, where the stream is intact: the validator did not read it
ForwardedBodyCompleteWithHeader ==
    \A i \in DOMAIN backend :
        (backend[i].Operation = "PutObject" /\ req.ContentSha256 # <<>>) =>
            backend[i].Body = req.Sent

(***************************************************************************)
(* C8  Two requests with the same method, path, query and client metadata  *)
(* that both fail authentication, for whatever reasons, get the same       *)
(* response (403 SignatureDoesNotMatch) and the same audit entry           *)
(* (DENY_AUTH_FAILED, empty clientId and tenantId), request id aside.      *)
(***************************************************************************)
SameSurface(o) ==
    /\ o.Method = req.Method
    /\ o.Path = req.Path
    /\ o.Query = req.Query
    /\ o.XForwardedFor = req.XForwardedFor
    /\ o.XRealIP = req.XRealIP
    /\ o.RemoteAddr = req.RemoteAddr
    /\ o.UserAgent = req.UserAgent

AuthFailuresIndistinguishable ==
    (pc = "done" /\ authErr # "") =>
        /\ Denied(403, "SignatureDoesNotMatch", DenyAuthFailed)
        /\ auditLog[1].ClientID = ""
        /\ auditLog[1].TenantID = ""
        /\ (prev # <<>> /\ SameSurface(prev[1])) =>
            /\ Observed.response = prev[1].response
            /\ Observed.audit = prev[1].audit

BadSignatureAfterUnknownKey ==
    /\ pc = "done"
    /\ authErr = "signature mismatch"
    /\ prev # <<>>
    /\ prev[1].authErr = "credential not found for access key"
    /\ SameSurface(prev[1])

(***************************************************************************)
(* C9  Every request results in exactly one entry passed to the audit      *)
(* logger, after the last check and before the response is written.        *)
(***************************************************************************)
AuditedOnceInOrder ==
    /\ Len(auditLog) = 1
    /\ Count(trace, "audit") = 1
    /\ Count(trace, "write") = 1
    /\ Len(trace) >= 2
    /\ trace[Len(trace) - 1] = "audit"
    /\ trace[Len(trace)] = "write"

\* C9 as stated: every request handled
EveryRequestAuditedOnce == pc = "done" => AuditedOnceInOrder

\* C9 as amended: every request but the /health probe, which is answered
\* without an audit entry; nothing is logged or written while checks remain
EveryPipelineRequestAuditedOnce ==
    /\ (pc = "done" /\ req.Path # HealthPath) => AuditedOnceInOrder
    /\ pc # "done" => (auditLog = <<>> /\ response = <<>>)

BackendErrorAudited ==
    /\ pc = "done"
    /\ Len(auditLog) = 1
    /\ auditLog[1].DenyReason = "S3_ERROR"
    /\ response[1].StatusCode = 404

(***************************************************************************)
(* C10  The checks run in the order empty bucket, authentication, tenant   *)
(* scope, policy; the first that fails decides the response and the audit  *)
(* reason and no later check runs.  An empty bucket path gets 400          *)
(* InvalidRequest even without an Authorization header; a non-empty bucket *)
(* without an Authorization header gets 403 SignatureDoesNotMatch.         *)
(***************************************************************************)
FirstFailureReported ==
    IF AskedBucket = <<>>
    THEN /\ Denied(400, "InvalidRequest", DenyInvalidResource)
         /\ Checks = <<"parse">>
    ELSE IF ~ValidatesWith(req.Sent)
    THEN /\ Denied(403, "SignatureDoesNotMatch", DenyAuthFailed)
         /\ Checks = <<"parse", "authenticate">>
    ELSE IF ~ScopeAdmits(AskedBucket, NamedCredential[1].Scopes)
    THEN /\ Denied(403, "AccessDenied", DenyTenantBoundary)
         /\ Checks = <<"parse", "authenticate", "scope">>
    ELSE IF ~PolicyAdmits(AskedCtx, NamedCredential[1].Policies)
    THEN /\ Denied(403, "AccessDenied", DenyPolicy)
         /\ Checks = <<"parse", "authenticate", "scope", "evaluate">>
    ELSE /\ Checks = CheckOrder
         /\ \A i \in DOMAIN auditLog : auditLog[i].DenyReason \notin DenyReasons

\* C10 as stated: every request
ChecksInOrderEveryRequest == pc = "done" => FirstFailureReported

\* C10 as amended: every request but one whose path is exactly /health
ChecksInOrder ==
    /\ (pc = "done" /\ req.Path # HealthPath) => FirstFailureReported
    /\ Checks = SubSeq(CheckOrder, 1, Len(Checks))

EmptyBucketWithoutAuthorization ==
    /\ pc = "done"
    /\ AskedBucket = <<>>
    /\ req.Authorization.kind = "absent"
    /\ response[1].StatusCode = 400
    /\ response[1].Code = "InvalidRequest"

(***************************************************************************)
(* C11  With a policy allowing s3:Get* the request GET /bucket/key?acl     *)
(* (s3:GetObjectAcl) is allowed by the gateway; in general a request whose *)
(* policy decision is Allow is not answered with an error and a deny audit *)
(* entry because of its action: the forwarder takes it to the backend.     *)
(***************************************************************************)
AllowedActionIsForwarded ==
    (pc = "done" /\ decision # <<>> /\ decision[1].Allowed) =>
        /\ Len(backend) = 1
        /\ auditLog[1].Decision = "deny" => auditLog[1].ErrorMsg \in BackendErrors

\* C11, for the five actions the forwarder knows: the backend is called
AllowedSupportedActionIsForwarded ==
    (/\ pc = "done"
     /\ decision # <<>>
     /\ decision[1].Allowed
     /\ s3req[1].Action \in {<<"s", "3", ":", "G", "e", "t", "O", "b", "j", "e", "c", "t">>, <<"s", "3", ":", "P", "u", "t", "O", "b", "j", "e", "c", "t">>, <<"s", "3", ":", "D", "e", "l", "e", "t", "e", "O", "b", "j", "e", "c", "t">>,
                             <<"s", "3", ":", "L", "i", "s", "t", "B", "u", "c", "k", "e", "t">>, <<"s", "3", ":", "H", "e", "a", "d", "O", "b", "j", "e", "c", "t">>}) =>
        /\ Len(backend) = 1
        /\ auditLog[1].Decision = "deny" => auditLog[1].ErrorMsg \in BackendErrors

(***************************************************************************)
(* internal/policy: ParseResourceARN and its round trip with               *)
(* BuildResourceARN                                                        *)
(***************************************************************************)
\* faulty variant: the bucket ends at the last "/"
ParseResourceARN_LastSlash(arn) ==
    IF ~HasPrefix(arn, ArnPrefix) THEN <<(<<>>), (<<>>), FALSE>>
    ELSE LET rest == TrimPrefix(arn, ArnPrefix)
             cut == LastIndexOf(rest, "/")
         IN  IF cut = 0 THEN <<rest, (<<>>), TRUE>>
             ELSE <<SubSeq(rest, 1, cut - 1), SubSeq(rest, cut + 1, Len(rest)), TRUE>>

ParseResourceARN(arn) ==
    IF ~HasPrefix(arn, ArnPrefix) THEN <<(<<>>), (<<>>), FALSE>>
    ELSE LET rest == TrimPrefix(arn, ArnPrefix)
             parts == SplitN2(rest, "/")
         IN  <<parts[1], IF Len(parts) > 1 THEN parts[2] ELSE <<>>, TRUE>>

MaxArnLen == 2   \* length of a drawn bucket or key (SpecArn)

ArnStrings == SeqsUpTo({"a", "/"}, MaxArnLen)

\* no request is being handled
NoRequestHandled ==
    /\ req = <<>>
    /\ requestId = ""
    /\ streams = <<>>
    /\ s3req = <<>>
    /\ authErr = ""
    /\ authCtx = <<>>
    /\ evalCtx = <<>>
    /\ policyNames = <<>>
    /\ decision = <<>>
    /\ trace = <<>>
    /\ auditLog = <<>>
    /\ response = <<>>
    /\ backend = <<>>
    /\ prev = <<>>

NoRequest ==
    /\ NoRequestHandled
    /\ locks = <<>>
    /\ threads = <<>>
    /\ sinks = <<>>

InitArn ==
    /\ credentials = LoadedCredentials
    /\ policies = LoadedPolicies
    /\ NoRequest
    /\ pc = "build"
    /\ args \in {<<bucket, key>> : bucket \in ArnStrings, key \in ArnStrings}
    /\ result = <<>>

BuildResourceARNCall ==
    /\ pc = "build"
    /\ result' = <<BuildResourceARN(args[1], args[2])>>
    /\ pc' = "parse"
    /\ UNCHANGED <<sinks, locks, threads, args, credentials, policies, req, requestId, streams, s3req,
                   authErr, authCtx, evalCtx, policyNames, decision, trace,
                   auditLog, response, backend, prev>>

ParseResourceARNCall ==
    /\ pc = "parse"
    /\ result' = <<result[1], ParseResourceARN(result[1])>>
    /\ pc' = "parsed"
    /\ UNCHANGED <<sinks, locks, threads, args, credentials, policies, req, requestId, streams, s3req,
                   authErr, authCtx, evalCtx, policyNames, decision, trace,
                   auditLog, response, backend, prev>>

NextArn == BuildResourceARNCall \/ ParseResourceARNCall

SpecArn == InitArn /\ [][NextArn]_vars

(***************************************************************************)
(* C12  ParseResourceARN(BuildResourceARN(b, k)) = (b, k, true) for every  *)
(* non-empty bucket b and every key k.                                     *)
(***************************************************************************)
\* C12 as stated: b may contain "/"
ArnRoundTripAnyBucket ==
    (pc = "parsed" /\ args[1] # <<>>) => result[2] = <<args[1], args[2], TRUE>>

\* C12 as amended: b non-empty without "/", k any string; a "/" in b ends
\* the parsed bucket
ArnRoundTrip ==
    pc = "parsed" =>
        /\ (args[1] # <<>> /\ IndexOf(args[1], "/") = 0) =>
              result[2] = <<args[1], args[2], TRUE>>
        /\ (args[1] # <<>> /\ IndexOf(args[1], "/") # 0) =>
              /\ result[2][3]
              /\ result[2][1] = BeforeSlash(args[1])
              /\ result[2][1] # args[1]

ArnRoundTripWithSlashInKey ==
    /\ pc = "parsed"
    /\ args[1] = <<"a">>
    /\ args[2] = <<"/", "a">>
    /\ result[2] = <<args[1], args[2], TRUE>>

(***************************************************************************)
(* internal/policy: the matcher called on drawn strings                    *)
(***************************************************************************)
MaxPatternLen == 2   \* length of a drawn pattern (SpecMatch)
MaxBucketLen == 2    \* length of a drawn bucket name (SpecMatch)
MaxScopes == 2       \* length of a drawn scope list (SpecMatch)

PatternChars ==
    {"a", "*", "?", ".", "+", "^", "$", "[", "]", "(", ")", "{", "}", "|", "\\",
     "\n", InvalidByte}

Patterns == SeqsUpTo(PatternChars, MaxPatternLen)

\* strings to match against pattern p: p itself and strings close to it.
\* They are validly encoded: none holds InvalidByte.
RECURSIVE Decoded(_)
Decoded(s) == IF s = <<>> THEN <<>> ELSE <<DecodeRune(Head(s))>> \o Decoded(Tail(s))

SubjectsOf(p) ==
    {s \in {p, Decoded(p), p \o <<"a">>, <<"a">> \o p, p \o <<"\n">>, <<"\n">> \o p,
            <<"a">>, <<"a", "a">>, <<"a", "\n">>, <<>>}
           \cup {[p EXCEPT ![i] = "a"] : i \in 1..Len(p)}
           \cup {SubSeq(p, 1, i - 1) \o SubSeq(p, i + 1, Len(p)) : i \in 1..Len(p)} :
        \A i \in 1..Len(s) : s[i] # InvalidByte}

BucketNames == SeqsUpTo({"a", "b", "\n"}, MaxBucketLen)

ScopePatterns ==
    {<<"a", "*">>, <<"a", "/", "b", "*">>, <<"*", "/", "x">>, <<"?">>, <<"b">>, <<"a", "?", "/">>, <<"/", "a">>, <<>>}

ScopeLists == SeqsUpTo(ScopePatterns, MaxScopes)

InitMatch ==
    /\ credentials = LoadedCredentials
    /\ policies = LoadedPolicies
    /\ NoRequest
    /\ result = <<>>
    /\ \/ /\ pc = "matchPattern"
          /\ args \in UNION {{<<s, p>> : s \in SubjectsOf(p)} : p \in Patterns}
       \/ /\ pc = "MatchScope"
          /\ args \in {<<bucket, scopes>> : bucket \in BucketNames, scopes \in ScopeLists}

matchPatternCall ==
    /\ pc = "matchPattern"
    /\ result' = <<matchPattern(args[1], args[2])>>
    /\ pc' = "matched"
    /\ UNCHANGED <<sinks, locks, threads, args, credentials, policies, req, requestId, streams, s3req,
                   authErr, authCtx, evalCtx, policyNames, decision, trace,
                   auditLog, response, backend, prev>>

MatchScopeCall ==
    /\ pc = "MatchScope"
    /\ result' = <<MatchScope(args[1], args[2])>>
    /\ pc' = "scoped"
    /\ UNCHANGED <<sinks, locks, threads, args, credentials, policies, req, requestId, streams, s3req,
                   authErr, authCtx, evalCtx, policyNames, decision, trace,
                   auditLog, response, backend, prev>>

NextMatch == matchPatternCall \/ MatchScopeCall

SpecMatch == InitMatch /\ [][NextMatch]_vars

(***************************************************************************)
(* C13  MatchScope(bucket, scopes) is true exactly when, for some scope,   *)
(* the part of the scope before its first "/" glob-matches the whole       *)
(* bucket name ("*" any run of characters, "?" exactly one); what follows  *)
(* the first "/" has no effect and an empty scope list gives false.        *)
(***************************************************************************)
MatchScopeIsGlobOnBucketPart ==
    pc = "scoped" => result[1] = ScopeAdmits(args[1], args[2])

\* C13, for bucket names without a line feed
MatchScopeIsGlobOnBucketPartOneLine ==
    (pc = "scoped" /\ \A i \in 1..Len(args[1]) : args[1][i] # "\n") =>
        result[1] = ScopeAdmits(args[1], args[2])

(***************************************************************************)
(* C14  For a pattern p holding neither "*" nor "?", matchPattern(s, p) is *)
(* true exactly when s = p, for every string s, regex metacharacters in p  *)
(* included.                                                               *)
(***************************************************************************)
NoWildcard(p) == \A i \in 1..Len(p) : p[i] \notin {"*", "?"}

LiteralPatternIsEquality ==
    (pc = "matched" /\ NoWildcard(args[2])) => (result[1] <=> args[1] = args[2])

\* C14, for patterns that are valid UTF-8
ValidLiteralPatternIsEquality ==
    (/\ pc = "matched"
     /\ NoWildcard(args[2])
     /\ \A i \in 1..Len(args[2]) : args[2][i] # InvalidByte) =>
        (result[1] <=> args[1] = args[2])

(***************************************************************************)
(* internal/proxy: ParseS3Request called on drawn requests                 *)
(***************************************************************************)
MaxPathLen == 4       \* length of a drawn URL path (SpecParse)
MaxQueryParams == 2   \* query parameters of a drawn request (SpecParse)

QueryFlags ==
    {"acl", "versioning", "lifecycle", "policy", "tagging", "uploads", "uploadId"}

ParseMethods == {MethodGet, MethodHead, MethodPut, MethodPost, MethodDelete, "PATCH"}

ParsePaths == {<<"/">> \o rest : rest \in SeqsUpTo({"a", "/"}, MaxPathLen - 1)}

ParseQueries ==
    {q \in SUBSET (QueryFlags \cup {"prefix"}) : Cardinality(q) <= MaxQueryParams}

InitParse ==
    /\ credentials = LoadedCredentials
    /\ policies = LoadedPolicies
    /\ NoRequest
    /\ result = <<>>
    /\ pc = "ParseS3Request"
    /\ args \in {<<[Method |-> m, Path |-> p, Query |-> q, Body |-> 1]>> :
                    m \in ParseMethods, p \in ParsePaths, q \in ParseQueries}

ParseS3RequestCall ==
    /\ pc = "ParseS3Request"
    /\ result' = <<ParseS3Request(args[1])>>
    /\ pc' = "requestParsed"
    /\ UNCHANGED <<sinks, locks, threads, args, credentials, policies, req, requestId, streams, s3req,
                   authErr, authCtx, evalCtx, policyNames, decision, trace,
                   auditLog, response, backend, prev>>

NextParse == ParseS3RequestCall

SpecParse == InitParse /\ [][NextParse]_vars

(***************************************************************************)
(* C15  determineAction implements the decision table: for each query flag *)
(* (or none), listed method and key-empty/non-empty, the action is the one *)
(* of the table; bucket and key are split on the first "/" after the       *)
(* leading slash.                                                          *)
(***************************************************************************)
\* the table, row by row: flag ("" for none), method, key empty?, action
ActionTable ==
    {<<"acl", "GET", TRUE, <<"s", "3", ":", "G", "e", "t", "B", "u", "c", "k", "e", "t", "A", "c", "l">>>>,
     <<"acl", "GET", FALSE, <<"s", "3", ":", "G", "e", "t", "O", "b", "j", "e", "c", "t", "A", "c", "l">>>>,
     <<"acl", "PUT", TRUE, <<"s", "3", ":", "P", "u", "t", "B", "u", "c", "k", "e", "t", "A", "c", "l">>>>,
     <<"acl", "PUT", FALSE, <<"s", "3", ":", "P", "u", "t", "O", "b", "j", "e", "c", "t", "A", "c", "l">>>>,
     <<"tagging", "GET", TRUE, <<"s", "3", ":", "G", "e", "t", "B", "u", "c", "k", "e", "t", "T", "a", "g", "g", "i", "n", "g">>>>,
     <<"tagging", "GET", FALSE, <<"s", "3", ":", "G", "e", "t", "O", "b", "j", "e", "c", "t", "T", "a", "g", "g", "i", "n", "g">>>>,
     <<"tagging", "PUT", TRUE, <<"s", "3", ":", "P", "u", "t", "B", "u", "c", "k", "e", "t", "T", "a", "g", "g", "i", "n", "g">>>>,
     <<"tagging", "PUT", FALSE, <<"s", "3", ":", "P", "u", "t", "O", "b", "j", "e", "c", "t", "T", "a", "g", "g", "i", "n", "g">>>>,
     <<"tagging", "DELETE", TRUE, <<"s", "3", ":", "D", "e", "l", "e", "t", "e", "B", "u", "c", "k", "e", "t", "T", "a", "g", "g", "i", "n", "g">>>>,
     <<"tagging", "DELETE", FALSE, <<"s", "3", ":", "D", "e", "l", "e", "t", "e", "O", "b", "j", "e", "c", "t", "T", "a", "g", "g", "i", "n", "g">>>>,
     <<"", "GET", TRUE, <<"s", "3", ":", "L", "i", "s", "t", "B", "u", "c", "k", "e", "t">>>>,
     <<"", "HEAD", TRUE, <<"s", "3", ":", "L", "i", "s", "t", "B", "u", "c", "k", "e", "t">>>>,
     <<"", "PUT", TRUE, <<"s", "3", ":", "C", "r", "e", "a", "t", "e", "B", "u", "c", "k", "e", "t">>>>,
     <<"", "DELETE", TRUE, <<"s", "3", ":", "D", "e", "l", "e", "t", "e", "B", "u", "c", "k", "e", "t">>>>,
     <<"", "GET", FALSE, <<"s", "3", ":", "G", "e", "t", "O", "b", "j", "e", "c", "t">>>>,
     <<"", "HEAD", FALSE, <<"s", "3", ":", "G", "e", "t", "O", "b", "j", "e", "c", "t">>>>,
     <<"", "PUT", FALSE, <<"s", "3", ":", "P", "u", "t", "O", "b", "j", "e", "c", "t">>>>,
     <<"", "POST", FALSE, <<"s", "3", ":", "P", "u", "t", "O", "b", "j", "e", "c", "t">>>>,
     <<"", "DELETE", FALSE, <<"s", "3", ":", "D", "e", "l", "e", "t", "e", "O", "b", "j", "e", "c", "t">>>>}
    \cup
    UNION {{<<"versioning", "GET", e, <<"s", "3", ":", "G", "e", "t", "B", "u", "c", "k", "e", "t", "V", "e", "r", "s", "i", "o", "n", "i", "n", "g">>>>,
            <<"versioning", "PUT", e, <<"s", "3", ":", "P", "u", "t", "B", "u", "c", "k", "e", "t", "V", "e", "r", "s", "i", "o", "n", "i", "n", "g">>>>,
            <<"lifecycle", "GET", e, <<"s", "3", ":", "G", "e", "t", "L", "i", "f", "e", "c", "y", "c", "l", "e", "C", "o", "n", "f", "i", "g", "u", "r", "a", "t", "i", "o", "n">>>>,
            <<"lifecycle", "PUT", e, <<"s", "3", ":", "P", "u", "t", "L", "i", "f", "e", "c", "y", "c", "l", "e", "C", "o", "n", "f", "i", "g", "u", "r", "a", "t", "i", "o", "n">>>>,
            <<"lifecycle", "DELETE", e, <<"s", "3", ":", "D", "e", "l", "e", "t", "e", "L", "i", "f", "e", "c", "y", "c", "l", "e", "C", "o", "n", "f", "i", "g", "u", "r", "a", "t", "i", "o", "n">>>>,
            <<"policy", "GET", e, <<"s", "3", ":", "G", "e", "t", "B", "u", "c", "k", "e", "t", "P", "o", "l", "i", "c", "y">>>>,
            <<"policy", "PUT", e, <<"s", "3", ":", "P", "u", "t", "B", "u", "c", "k", "e", "t", "P", "o", "l", "i", "c", "y">>>>,
            <<"policy", "DELETE", e, <<"s", "3", ":", "D", "e", "l", "e", "t", "e", "B", "u", "c", "k", "e", "t", "P", "o", "l", "i", "c", "y">>>>,
            <<"uploads", "POST", e, <<"s", "3", ":", "P", "u", "t", "O", "b", "j", "e", "c", "t">>>>,
            <<"uploads", "GET", e, <<"s", "3", ":", "L", "i", "s", "t", "B", "u", "c", "k", "e", "t", "M", "u", "l", "t", "i", "p", "a", "r", "t", "U", "p", "l", "o", "a", "d", "s">>>>,
            <<"uploadId", "PUT", e, <<"s", "3", ":", "P", "u", "t", "O", "b", "j", "e", "c", "t">>>>,
            <<"uploadId", "POST", e, <<"s", "3", ":", "P", "u", "t", "O", "b", "j", "e", "c", "t">>>>,
            <<"uploadId", "DELETE", e, <<"s", "3", ":", "A", "b", "o", "r", "t", "M", "u", "l", "t", "i", "p", "a", "r", "t", "U", "p", "l", "o", "a", "d">>>>,
            <<"uploadId", "GET", e, <<"s", "3", ":", "L", "i", "s", "t", "M", "u", "l", "t", "i", "p", "a", "r", "t", "U", "p", "l", "o", "a", "d", "P", "a", "r", "t", "s">>>>} : e \in BOOLEAN}

\* the path is "/" bucket, or "/" bucket "/" key with no "/" in the bucket
SplitOnFirstSlash(path, bucket, key) ==
    /\ IndexOf(bucket, "/") = 0
    /\ \/ key = <<>> /\ path \in {<<"/">> \o bucket, <<"/">> \o bucket \o <<"/">>}
       \/ key # <<>> /\ path = <<"/">> \o bucket \o <<"/">> \o key

ActionTableImplemented ==
    pc = "requestParsed" =>
        /\ SplitOnFirstSlash(args[1].Path, result[1].Bucket, result[1].Key)
        /\ \A row \in ActionTable :
            (/\ args[1].Query \cap QueryFlags = {row[1]} \ {""}
             /\ args[1].Method = row[2]
             /\ (result[1].Key = <<>>) = row[3]) =>
                result[1].Action = row[4]

ObjectAclWithSlashInKey ==
    /\ pc = "requestParsed"
    /\ args[1].Query = {"acl", "prefix"}
    /\ args[1].Method = "GET"
    /\ args[1].Path = <<"/", "a", "/", "/">>
    /\ result[1].Bucket = <<"a">>
    /\ result[1].Key = <<"/">>
    /\ result[1].Action = <<"s", "3", ":", "G", "e", "t", "O", "b", "j", "e", "c", "t", "A", "c", "l">>

(***************************************************************************)
(* C16  Names the store does not hold are skipped without effect: Evaluate *)
(* returns for a name list the decision it returns for the list with those *)
(* names removed; such a name neither denies nor stops the evaluation of   *)
(* the names after it.                                                     *)
(***************************************************************************)
IsKnownPolicy(name) == name \in DOMAIN policies

KnownOnly(names) == SelectSeq(names, IsKnownPolicy)

UnknownNamesSkipped ==
    pc = "evaluated" =>
        /\ decision[1] = Evaluate(evalCtx[1], KnownOnly(policyNames))
        /\ (~decision[1].Allowed /\ decision[1].MatchedPolicy # "") =>
              IsKnownPolicy(decision[1].MatchedPolicy)
        /\ PolicyAdmits(evalCtx[1], KnownOnly(policyNames)) => decision[1].Allowed

AllowedAfterUnknownName ==
    /\ pc = "evaluated"
    /\ Len(policyNames) = 2
    /\ ~IsKnownPolicy(policyNames[1])
    /\ IsKnownPolicy(policyNames[2])
    /\ decision[1].Allowed
    /\ decision[1].MatchedPolicy = policyNames[2]

(***************************************************************************)
(* Gateway.handleError called with each reason and with different errors   *)
(***************************************************************************)
ErrorReasons ==
    {DenyAuthFailed, DenyTenantBoundary, DenyPolicy, DenyInvalidResource,
     DenyInternalError, "DENY_OTHER"}

ErrorValues == {"", "signature mismatch", "credential not found for access key"}

ErrorRequests ==
    {MakeRequest(m, p, {}, "absent", [AccessKey |-> "", SecretKey |-> ""], <<>>,
                 FALSE, <<(<<>>), (<<>>)>>, xff) :
        m \in {MethodGet, MethodPut}, p \in {<<"/">>, <<"/", "a", "b", "/", "k">>}, xff \in ForwardedFor}

InitErrors ==
    /\ credentials = LoadedCredentials
    /\ policies = LoadedPolicies
    /\ NoRequest
    /\ result = <<>>
    /\ pc = "handleError"
    /\ args \in {<<[reason |-> reason, err |-> err, r |-> r, requestID |-> id,
                    sreq |-> IF parsed THEN <<ParseS3Request(r)>> ELSE <<>>]>> :
                    reason \in ErrorReasons, err \in ErrorValues, id \in RequestIDs,
                    r \in ErrorRequests, parsed \in BOOLEAN}

handleErrorCall ==
    /\ pc = "handleError"
    /\ result' = <<handleError(args[1].requestID, "", "", args[1].sreq,
                               args[1].reason, args[1].err, args[1].r)>>
    /\ pc' = "errorHandled"
    /\ UNCHANGED <<sinks, locks, threads, args, credentials, policies, req, requestId, streams, s3req,
                   authErr, authCtx, evalCtx, policyNames, decision, trace,
                   auditLog, response, backend, prev>>

NextErrors == handleErrorCall

SpecErrors == InitErrors /\ [][NextErrors]_vars

(***************************************************************************)
(* C17  The client-visible error of each internal reason is the one of the *)
(* mapping table (status, Code, Message); HTTPStatusCode and ToS3Error     *)
(* agree with the table and the message does not depend on the error that  *)
(* caused the denial.                                                      *)
(***************************************************************************)
\* the table: reason, status, Code, Message
ErrorTable ==
    {<<"DENY_AUTH_FAILED", 403, "SignatureDoesNotMatch",
       "The request signature we calculated does not match the signature you provided">>,
     <<"DENY_TENANT_BOUNDARY", 403, "AccessDenied",
       "Access denied: resource is outside your tenant boundary">>,
     <<"DENY_POLICY", 403, "AccessDenied",
       "Access denied: action not permitted by policy">>,
     <<"DENY_INVALID_RESOURCE", 400, "InvalidRequest", "Invalid resource">>,
     <<"DENY_INTERNAL_ERROR", 500, "InternalError",
       "We encountered an internal error. Please try again.">>}

ErrorMappingFixed ==
    pc = "errorHandled" =>
        \A row \in ErrorTable :
            args[1].reason = row[1] =>
                /\ result[1].response.StatusCode = row[2]
                /\ result[1].response.Code = row[3]
                /\ result[1].response.Message = row[4]
                /\ HTTPStatusCode(row[1]) = row[2]
                /\ ToS3ErrorCode(row[1]) = row[3]
                /\ ToS3ErrorMessage(row[1]) = row[4]
                /\ Len(result[1].audit) = 1
                /\ result[1].audit[1].DenyReason = row[1]

InternalErrorWithCause ==
    /\ pc = "errorHandled"
    /\ args[1].reason = "DENY_INTERNAL_ERROR"
    /\ args[1].err = "signature mismatch"
    /\ result[1].response.StatusCode = 500
    /\ result[1].response.Message = "We encountered an internal error. Please try again."

(***************************************************************************)
(* C18  A failure of the forward call is never reported as an access-      *)
(* control denial: the client gets the S3 error chosen by substring match  *)
(* of the backend error message, and the audit entry has decision "deny",  *)
(* denyReason "S3_ERROR" and the raw message in its error field.           *)
(***************************************************************************)
Occurs(sub, s) ==
    \E i \in 0..(Len(s) - Len(sub)) : SubSeq(s, i + 1, i + Len(sub)) = sub

\* the request was forwarded and the forward call failed
ForwardFailed ==
    /\ pc = "done"
    /\ Count(trace, "forward") = 1
    /\ backend = <<>> \/ backend[1].Error # <<>>

\* the error the forward call returned
ForwardError ==
    IF backend = <<>> THEN <<"u", "n", "s", "u", "p", "p", "o", "r", "t", "e", "d", " ", "a", "c", "t", "i", "o", "n", ":", " ">> \o s3req[1].Action
    ELSE backend[1].Error[1]

AuditedAsS3Error ==
    /\ Len(auditLog) = 1
    /\ auditLog[1].Decision = "deny"
    /\ auditLog[1].DenyReason = "S3_ERROR"
    /\ auditLog[1].ErrorMsg = ForwardError
    /\ response[1].Code \notin {"AccessDenied", "SignatureDoesNotMatch", "InvalidRequest"}

\* C18 as stated: NoSuchKey, NoSuchBucket, anything else InternalError
BackendErrorBySubstring ==
    ForwardFailed =>
        /\ AuditedAsS3Error
        /\ Occurs(<<"N", "o", "S", "u", "c", "h", "K", "e", "y">>, ForwardError) => response[1].Code = "NoSuchKey"
        /\ Occurs(<<"N", "o", "S", "u", "c", "h", "B", "u", "c", "k", "e", "t">>, ForwardError) => response[1].Code = "NoSuchBucket"
        /\ (~Occurs(<<"N", "o", "S", "u", "c", "h", "K", "e", "y">>, ForwardError) /\ ~Occurs(<<"N", "o", "S", "u", "c", "h", "B", "u", "c", "k", "e", "t">>, ForwardError)) =>
              (response[1].Code = "InternalError" /\ response[1].StatusCode = 500)

\* C18 as amended: NoSuchKey or NotFound first, then NoSuchBucket
BackendErrorBySubstringInOrder ==
    ForwardFailed =>
        /\ AuditedAsS3Error
        /\ IF Occurs(<<"N", "o", "S", "u", "c", "h", "K", "e", "y">>, ForwardError) \/ Occurs(<<"N", "o", "t", "F", "o", "u", "n", "d">>, ForwardError)
           THEN response[1].Code = "NoSuchKey" /\ response[1].StatusCode = 404
           ELSE IF Occurs(<<"N", "o", "S", "u", "c", "h", "B", "u", "c", "k", "e", "t">>, ForwardError)
           THEN response[1].Code = "NoSuchBucket" /\ response[1].StatusCode = 404
           ELSE response[1].Code = "InternalError" /\ response[1].StatusCode = 500

BackendNotFoundReported ==
    /\ ForwardFailed
    /\ backend # <<>>
    /\ backend[1].Error = <<<<"N", "o", "t", "F", "o", "u", "n", "d">>>>
    /\ response[1].Code = "NoSuchKey"
    /\ auditLog[1].ErrorMsg = <<"N", "o", "t", "F", "o", "u", "n", "d">>

(***************************************************************************)
(* Secret rotation: a request is handled, the credentials file is reloaded *)
(* with other secret keys, and the same request arrives again.  prev       *)
(* remembers what the first handling showed.                               *)
(***************************************************************************)
SecretKeys == {"SK1", "SK2", "SK3"}

SecretRequests ==
    {MakeRequest(m, p, {}, kind, signer, date, FALSE, <<(<<>>), (<<>>)>>, <<>>) :
        m \in {MethodGet, MethodPut}, p \in {<<"/", "h", "e", "a", "l", "t", "h">>, <<"/", "a", "b", "/", "k">>, <<"/", "a", "b", "/", "p">>, <<"/", "b", "/", "k">>},
        kind \in AuthKinds, signer \in Signers, date \in {<<0>>, <<ClockSkew + 1>>}}

\* the request as it arrived (authenticate replaces r.Body by a rewound copy)
Arrived == [req EXCEPT !.Body = 1]

\* what the backend answered to each call of this request
BackendAnswers == [i \in 1..Len(backend) |-> backend[i].Error]

AcceptSecret ==
    AcceptFrom(IF prev = <<>> THEN SecretRequests ELSE {prev[1].request})

\* InMemoryCredentialStore.Reload from a file in which one secret key changed
RotateSecret ==
    /\ pc = "idle"
    /\ prev # <<>>
    /\ \E accessKey \in DOMAIN credentials, secret \in SecretKeys :
        /\ secret # credentials[accessKey].SecretKey
        /\ credentials' = [credentials EXCEPT ![accessKey].SecretKey = secret]
    /\ UNCHANGED <<sinks, locks, threads, args, result, policies, pc, req, requestId, streams, s3req, authErr,
                   authCtx, evalCtx, policyNames, decision, trace, auditLog, response,
                   backend, prev>>

ReturnSecret ==
    ReturnWith(IF prev = <<>>
               THEN <<[request |-> Arrived, credentials |-> credentials,
                       observed |-> Observed, answers |-> BackendAnswers]>>
               ELSE <<>>)

NextSecret == AcceptSecret \/ Handle \/ RotateSecret \/ ReturnSecret

SpecSecret == Init /\ [][NextSecret]_vars

(***************************************************************************)
(* C19  Secret-key material never reaches an output: for two credential    *)
(* stores that differ only in the secret key of one credential, a request  *)
(* with the same authentication outcome under both (and the same backend   *)
(* answers) yields identical audit entries and identical client responses, *)
(* request id aside, and no error field holds a secret key.                *)
(***************************************************************************)
DifferOnlyInOneSecret(a, b) ==
    /\ DOMAIN a = DOMAIN b
    /\ Cardinality({k \in DOMAIN a : a[k] # b[k]}) = 1
    /\ \A k \in DOMAIN a : [a[k] EXCEPT !.SecretKey = ""] = [b[k] EXCEPT !.SecretKey = ""]

SecondHandling(first) ==
    /\ pc = "done"
    /\ first.request = Arrived
    /\ DifferOnlyInOneSecret(first.credentials, credentials)
    /\ (first.observed.authErr = "") = (authErr = "")
    /\ first.answers = BackendAnswers

SecretNeverObserved ==
    /\ \A i \in 1..Len(auditLog) :
           \A secret \in SecretKeys : auditLog[i].ErrorMsg # <<secret>>
    /\ (prev # <<>> /\ SecondHandling(prev[1])) =>
           /\ Observed.response = prev[1].observed.response
           /\ Observed.audit = prev[1].observed.audit

\* a request signed with one secret is refused under two other secrets
RefusedUnderBothSecrets ==
    /\ prev # <<>>
    /\ SecondHandling(prev[1])
    /\ authErr = "signature mismatch"
    /\ prev[1].observed.authErr = "signature mismatch"

\* a request is served while the secret of another credential changed
ServedWhileOtherSecretChanged ==
    /\ prev # <<>>
    /\ SecondHandling(prev[1])
    /\ authErr = ""
    /\ Len(backend) = 1

(***************************************************************************)
(* internal/config: loading and validating the credentials and policies    *)
(* files.  A file is [Readable, Parses, Entries]: Readable is FALSE when   *)
(* os.ReadFile fails, Parses is FALSE when yaml.Unmarshal fails.  Error    *)
(* texts are given without their position prefix                           *)
(* ("policies[%d].statements[%d]: ").                                      *)
(***************************************************************************)
RECURSIVE validateCredentialsFrom(_, _, _)
validateCredentialsFrom(creds, i, seen) ==
    IF i > Len(creds) THEN ""
    ELSE IF creds[i].AccessKey = "" THEN "accessKey is required"
    ELSE IF creds[i].SecretKey = "" THEN "secretKey is required"
    ELSE IF creds[i].ClientID = "" THEN "clientId is required"
    ELSE IF creds[i].TenantID = "" THEN "tenantId is required"
    ELSE IF creds[i].AccessKey \in seen THEN "duplicate accessKey"
    ELSE validateCredentialsFrom(creds, i + 1, seen \cup {creds[i].AccessKey})

validateCredentials(cfg) == validateCredentialsFrom(cfg, 1, {})

RECURSIVE validateStatementsFrom(_, _)
validateStatementsFrom(stmts, j) ==
    IF j > Len(stmts) THEN ""
    ELSE IF stmts[j].Effect # EffectAllow /\ stmts[j].Effect # EffectDeny
    THEN "effect must be Allow or Deny"
    ELSE IF Len(stmts[j].Actions) = 0 THEN "actions is required"
    ELSE IF Len(stmts[j].Resources) = 0 THEN "resources is required"
    ELSE validateStatementsFrom(stmts, j + 1)

\* faulty variant: the effect of a statement is not looked at
RECURSIVE validatePoliciesFrom_AnyEffect(_, _, _)
validatePoliciesFrom_AnyEffect(pols, i, seen) ==
    IF i > Len(pols) THEN ""
    ELSE IF pols[i].Name = "" THEN "name is required"
    ELSE IF pols[i].Name \in seen THEN "duplicate policy name"
    ELSE LET e == validateStatementsFrom(pols[i].Statements, 1)
         IN  IF e # "" /\ e # "effect must be Allow or Deny" THEN e
             ELSE validatePoliciesFrom_AnyEffect(pols, i + 1, seen \cup {pols[i].Name})

RECURSIVE validatePoliciesFrom(_, _, _)
validatePoliciesFrom(pols, i, seen) ==
    IF i > Len(pols) THEN ""
    ELSE IF pols[i].Name = "" THEN "name is required"
    ELSE IF pols[i].Name \in seen THEN "duplicate policy name"
    ELSE LET e == validateStatementsFrom(pols[i].Statements, 1)
         IN  IF e # "" THEN e
             ELSE validatePoliciesFrom(pols, i + 1, seen \cup {pols[i].Name})

validatePolicies_AnyEffect(cfg) == validatePoliciesFrom_AnyEffect(cfg, 1, {})

validatePolicies(cfg) == validatePoliciesFrom(cfg, 1, {})

\* LoadCredentials, LoadPolicies: [err, cfg]
LoadCredentials(file) ==
    IF ~file.Readable
    THEN [err |-> "failed to read credentials file", cfg |-> <<>>]
    ELSE IF ~file.Parses
    THEN [err |-> "failed to parse credentials file", cfg |-> <<>>]
    ELSE IF validateCredentials(file.Entries) # ""
    THEN [err |-> validateCredentials(file.Entries), cfg |-> <<>>]
    ELSE [err |-> "", cfg |-> file.Entries]

LoadPolicies(file) ==
    IF ~file.Readable
    THEN [err |-> "failed to read policies file", cfg |-> <<>>]
    ELSE IF ~file.Parses
    THEN [err |-> "failed to parse policies file", cfg |-> <<>>]
    ELSE IF validatePolicies(file.Entries) # ""
    THEN [err |-> validatePolicies(file.Entries), cfg |-> <<>>]
    ELSE [err |-> "", cfg |-> file.Entries]

\* a Go map filled by assignments in list order: the last entry of a key stays
LastIndexWith(keys, k) ==
    CHOOSE i \in 1..Len(keys) :
        /\ keys[i] = k
        /\ \A j \in (i + 1)..Len(keys) : keys[j] # k

MapOf(entries, keys) ==
    [k \in {keys[i] : i \in 1..Len(keys)} |-> entries[LastIndexWith(keys, k)]]

\* DefaultEngine.Reload: [err, policies], given the map now installed
EngineReload(installed, file) ==
    LET loaded == LoadPolicies(file)
        made == [i \in 1..Len(loaded.cfg) |->
                    [Name |-> loaded.cfg[i].Name, Version |-> loaded.cfg[i].Version,
                     Statements |->
                        [j \in 1..Len(loaded.cfg[i].Statements) |->
                            [Sid |-> loaded.cfg[i].Statements[j].Sid,
                             Effect |-> loaded.cfg[i].Statements[j].Effect,
                             Actions |-> loaded.cfg[i].Statements[j].Actions,
                             Resources |-> loaded.cfg[i].Statements[j].Resources,
                             Conditions |-> loaded.cfg[i].Statements[j].Conditions]]]]
    IN  IF loaded.err # ""
        THEN [err |-> "failed to load policies: " \o loaded.err, policies |-> installed]
        ELSE [err |-> "",
              policies |-> MapOf(made, [i \in 1..Len(made) |-> made[i].Name])]

\* faulty variant: the map is swapped in before the file is validated
StoreReload_InstallsUnvalidated(installed, file) ==
    LET loaded == LoadCredentials(file)
    IN  IF ~file.Readable \/ ~file.Parses
        THEN [err |-> "failed to load credentials: " \o loaded.err,
              credentials |-> installed]
        ELSE [err |-> IF loaded.err = "" THEN ""
                      ELSE "failed to load credentials: " \o loaded.err,
              credentials |-> MapOf(file.Entries,
                                    [i \in 1..Len(file.Entries) |->
                                        file.Entries[i].AccessKey])]

\* InMemoryCredentialStore.Reload: [err, credentials]
StoreReload(installed, file) ==
    LET loaded == LoadCredentials(file)
        made == [i \in 1..Len(loaded.cfg) |->
                    [AccessKey |-> loaded.cfg[i].AccessKey,
                     SecretKey |-> loaded.cfg[i].SecretKey,
                     ClientID |-> loaded.cfg[i].ClientID,
                     TenantID |-> loaded.cfg[i].TenantID,
                     Policies |-> loaded.cfg[i].Policies,
                     Scopes |-> loaded.cfg[i].Scopes]]
    IN  IF loaded.err # ""
        THEN [err |-> "failed to load credentials: " \o loaded.err,
              credentials |-> installed]
        ELSE [err |-> "",
              credentials |-> MapOf(made, [i \in 1..Len(made) |-> made[i].AccessKey])]

(***************************************************************************)
(* Reloading: the files change on disk and Reload is called on the engine  *)
(* and on the credential store, in any order, any number of times.         *)
(***************************************************************************)
MaxFileLen == 2   \* entries of a drawn credentials or policies file (SpecReload)

FileStatement(effect, actions, resources) ==
    [Sid |-> "s", Effect |-> effect, Actions |-> actions, Resources |-> resources,
     Conditions |-> NoConditions]

FileStatementLists ==
    {<<>>,
     <<FileStatement(EffectAllow, <<<<"s", "3", ":", "*">>>>, <<<<"*">>>>)>>,
     <<FileStatement(EffectDeny, <<<<"s", "3", ":", "*">>>>, <<<<"*">>>>),
       FileStatement("Audit", <<<<"s", "3", ":", "*">>>>, <<<<"*">>>>)>>,
     <<FileStatement(EffectAllow, <<>>, <<<<"*">>>>)>>,
     <<FileStatement(EffectAllow, <<<<"s", "3", ":", "*">>>>, <<>>)>>}

FilePolicies ==
    {[Name |-> n, Version |-> "2012-10-17", Statements |-> s] :
        n \in {"", "p1", "p2"}, s \in FileStatementLists}

FileCredentials ==
    {[AccessKey |-> f[1], SecretKey |-> f[2], ClientID |-> f[3], TenantID |-> f[4],
      Policies |-> <<"p1">>, Scopes |-> <<<<"*">>>>] :
        f \in {<<"AK1", "SK1", "client-1", "tenant-1">>,
               <<"AK1", "SK2", "client-2", "tenant-1">>,
               <<"AK2", "SK2", "client-2", "tenant-2">>,
               <<"", "SK1", "client-1", "tenant-1">>,
               <<"AK1", "", "client-1", "tenant-1">>,
               <<"AK1", "SK1", "", "tenant-1">>,
               <<"AK1", "SK1", "client-1", "">>}}

PoliciesFiles ==
    {[Readable |-> r[1], Parses |-> r[2], Entries |-> e] :
        r \in {<<FALSE, FALSE>>, <<TRUE, FALSE>>, <<TRUE, TRUE>>}, e \in SeqsUpTo(FilePolicies, MaxFileLen)}

CredentialsFiles ==
    {[Readable |-> r[1], Parses |-> r[2], Entries |-> e] :
        r \in {<<FALSE, FALSE>>, <<TRUE, FALSE>>, <<TRUE, TRUE>>}, e \in SeqsUpTo(FileCredentials, MaxFileLen)}

\* NewEngine and NewInMemoryCredentialStore before their first Reload
InitReload ==
    /\ NoRequest
    /\ credentials = [accessKey \in {} |-> <<>>]
    /\ policies = [name \in {} |-> <<>>]
    /\ pc = "idle"
    /\ args = <<>>
    /\ result = <<>>

ReloadUnchanged ==
    UNCHANGED <<sinks, locks, threads, req, requestId, streams, s3req, authErr, authCtx, evalCtx, policyNames,
                decision, trace, auditLog, response, backend, prev>>

\* the policies file as the next Reload of the engine reads it
ReadPoliciesFile ==
    /\ pc = "idle"
    /\ \E file \in PoliciesFiles : args' = <<file>>
    /\ pc' = "policies"
    /\ ReloadUnchanged
    /\ UNCHANGED <<result, credentials, policies>>

\* the credentials file as the next Reload of the store reads it
ReadCredentialsFile ==
    /\ pc = "idle"
    /\ \E file \in CredentialsFiles : args' = <<file>>
    /\ pc' = "credentials"
    /\ ReloadUnchanged
    /\ UNCHANGED <<result, credentials, policies>>

EngineReloadCall ==
    /\ pc = "policies"
    /\ LET out == EngineReload(policies, args[1])
       IN  /\ policies' = out.policies
           /\ result' = <<out.err>>
    /\ pc' = "policiesReloaded"
    /\ ReloadUnchanged
    /\ UNCHANGED <<args, credentials>>

StoreReloadCall ==
    /\ pc = "credentials"
    /\ LET out == StoreReload(credentials, args[1])
       IN  /\ credentials' = out.credentials
           /\ result' = <<out.err>>
    /\ pc' = "credentialsReloaded"
    /\ ReloadUnchanged
    /\ UNCHANGED <<args, policies>>

ReloadReturn ==
    /\ pc \in {"policiesReloaded", "credentialsReloaded"}
    /\ pc' = "idle"
    /\ args' = <<>>
    /\ result' = <<>>
    /\ ReloadUnchanged
    /\ UNCHANGED <<credentials, policies>>

NextReload ==
    \/ ReadPoliciesFile
    \/ ReadCredentialsFile
    \/ EngineReloadCall
    \/ StoreReloadCall
    \/ ReloadReturn

SpecReload == InitReload /\ [][NextReload]_vars

(***************************************************************************)
(* C20  After any sequence of successful and failed Reload calls the       *)
(* loaded snapshots are well formed: every statement of the engine has     *)
(* effect Allow or Deny and non-empty action and resource lists, policy    *)
(* names are unique, every credential has a unique access key; a file that *)
(* violates any of these is rejected with an error and is never installed. *)
(***************************************************************************)
StatementWellFormed(s) ==
    /\ s.Effect \in {"Allow", "Deny"}
    /\ s.Actions # <<>>
    /\ s.Resources # <<>>

\* no two entries of the list have the same key
Unique(keys) ==
    \A i, j \in 1..Len(keys) : keys[i] = keys[j] => i = j

PoliciesFileWellFormed(entries) ==
    /\ Unique([i \in 1..Len(entries) |-> entries[i].Name])
    /\ \A i \in 1..Len(entries) :
           \A j \in 1..Len(entries[i].Statements) :
               StatementWellFormed(entries[i].Statements[j])

CredentialsFileWellFormed(entries) ==
    Unique([i \in 1..Len(entries) |-> entries[i].AccessKey])

SnapshotsWellFormed ==
    /\ \A name \in DOMAIN policies :
           /\ policies[name].Name = name
           /\ \A j \in 1..Len(policies[name].Statements) :
                  StatementWellFormed(policies[name].Statements[j])
    /\ \A accessKey \in DOMAIN credentials :
           credentials[accessKey].AccessKey = accessKey

\* what a Reload call may do: install the whole file, one entry per name,
\* or fail and leave the snapshot as it was
ReloadInstallsOrRejects ==
    /\ (pc = "policies" /\ pc' = "policiesReloaded") =>
           IF PoliciesFileWellFormed(args[1].Entries) /\ result'[1] = ""
           THEN /\ Cardinality(DOMAIN policies') = Len(args[1].Entries)
                /\ \A i \in 1..Len(args[1].Entries) :
                       args[1].Entries[i].Name \in DOMAIN policies'
           ELSE result'[1] # "" /\ policies' = policies
    /\ (pc = "credentials" /\ pc' = "credentialsReloaded") =>
           IF CredentialsFileWellFormed(args[1].Entries) /\ result'[1] = ""
           THEN /\ Cardinality(DOMAIN credentials') = Len(args[1].Entries)
                /\ \A i \in 1..Len(args[1].Entries) :
                       args[1].Entries[i].AccessKey \in DOMAIN credentials'
           ELSE result'[1] # "" /\ credentials' = credentials

ReloadKeepsSnapshotsWellFormed ==
    []SnapshotsWellFormed /\ [][ReloadInstallsOrRejects]_vars

\* a file with an unknown effect is refused while policies are installed
BadEffectRejectedAfterInstall ==
    /\ pc = "policiesReloaded"
    /\ DOMAIN policies # {}
    /\ ~PoliciesFileWellFormed(args[1].Entries)
    /\ result = <<"failed to load policies: effect must be Allow or Deny">>

(***************************************************************************)
(* Requests whose X-Amz-Date lies around the edges of the allowed window.  *)
(***************************************************************************)
ClockDates ==
    {<<>>, <<0>>, <<ClockSkew - 1>>, <<ClockSkew>>, <<ClockSkew + 1>>,
     <<1 - ClockSkew>>, <<0 - ClockSkew>>, <<0 - ClockSkew - 1>>}

ClockRequests ==
    {MakeRequest(m, p, {}, kind, signer, date, withSha, <<(<<>>), (<<>>)>>, <<>>) :
        m \in {MethodGet, MethodPut}, p \in {<<"/", "h", "e", "a", "l", "t", "h">>, <<"/", "a", "b", "/", "k">>, <<"/", "b", "/", "k">>},
        kind \in AuthKinds, signer \in Signers, date \in ClockDates,
        withSha \in BOOLEAN}

AcceptClock == AcceptFrom(ClockRequests)

NextClock == AcceptClock \/ Handle \/ Return

SpecClock == Init /\ [][NextClock]_vars

(***************************************************************************)
(* C21  ParseAndValidate rejects a request for its timestamp exactly when  *)
(* X-Amz-Date differs from the current time by more than 15 minutes, in    *)
(* either direction (exactly 15 minutes is accepted), and the rejection    *)
(* reaches the client as 403.                                              *)
(***************************************************************************)
\* authentication got as far as the timestamp check
TimestampChecked ==
    /\ Count(trace, "authenticate") = 1
    /\ req.Authorization.kind = "sigv4"
    /\ req.Authorization.AccessKey \in DOMAIN credentials
    /\ req.AmzDate # <<>>

SkewSeconds == IF req.AmzDate[1] < 0 THEN 0 - req.AmzDate[1] ELSE req.AmzDate[1]

SignedWithStoredSecret ==
    \E signer \in Signers :
        /\ signer.AccessKey = req.Authorization.AccessKey
        /\ signer.SecretKey = credentials[signer.AccessKey].SecretKey
        /\ req = [MakeRequest(req.Method, req.Path, req.Query, "sigv4", signer,
                              req.AmzDate, req.ContentSha256 # <<>>,
                              <<req.Signed, req.Sent>>, req.XForwardedFor)
                  EXCEPT !.Body = req.Body]

SkewWindowExact ==
    TimestampChecked =>
        /\ (authErr = "request timestamp is outside allowed window")
               <=> (SkewSeconds > 15 * 60)
        /\ SkewSeconds > 15 * 60 =>
               (pc = "done" /\ response[1].StatusCode = 403 /\ Len(backend) = 0)
        /\ (SkewSeconds <= 15 * 60 /\ SignedWithStoredSecret) => authErr = ""

RejectedJustOutsideWindow ==
    /\ TimestampChecked
    /\ req.AmzDate = <<0 - ClockSkew - 1>>
    /\ SignedWithStoredSecret
    /\ pc = "done"
    /\ response[1].StatusCode = 403

(***************************************************************************)
(* statementMatches with the range order of the condition maps made        *)
(* explicit.  Go ranges a map in an order of its choosing: order lists the *)
(* (operator, key) pairs as the two nested loops meet them, the pairs of   *)
(* one operator next to each other.                                        *)
(***************************************************************************)
RECURSIVE evaluateConditionsFrom(_, _, _, _)
evaluateConditionsFrom(ctx, conditions, order, i) ==
    IF i > Len(order) THEN TRUE
    ELSE LET operator == order[i][1]
             key == order[i][2]
         IN  IF key \notin DOMAIN ctx.Conditions THEN FALSE
             ELSE IF ~evaluateCondition(operator, ctx.Conditions[key],
                                        conditions[operator][key])
             THEN FALSE
             ELSE evaluateConditionsFrom(ctx, conditions, order, i + 1)

statementMatchesIn(ctx, stmt, order) ==
    IF ~MatchAction(ctx.Action, stmt.Actions) THEN FALSE
    ELSE IF ~MatchResource(ctx.Resource, stmt.Resources) THEN FALSE
    ELSE IF Cardinality(DOMAIN stmt.Conditions) > 0
            /\ ~evaluateConditionsFrom(ctx, stmt.Conditions, order, 1)
    THEN FALSE
    ELSE TRUE

MaxConditionPairs == 2   \* (operator, key) pairs of a drawn statement (SpecCond)

ConditionOperators ==
    {"StringEquals", "StringNotEquals", "StringLike", "StringNotLike", "NumericEquals"}

ConditionKeys == {"aws:SourceIp", "aws:UserAgent"}

\* the (operator, key) pairs of a condition map
PairsOf(conditions) ==
    UNION {{<<operator, key>> : key \in DOMAIN conditions[operator]} :
           operator \in DOMAIN conditions}

RECURSIVE PermutationsOf(_)
PermutationsOf(S) ==
    IF S = {} THEN {<<>>}
    ELSE UNION {{<<x>> \o rest : rest \in PermutationsOf(S \ {x})} : x \in S}

\* the orders in which the nested range loops can meet the pairs
RangeOrders(conditions) ==
    {order \in PermutationsOf(PairsOf(conditions)) :
        \A i, j, k \in 1..Len(order) :
            (i < j /\ j < k /\ order[i][1] = order[k][1]) => order[j][1] = order[i][1]}

\* condition maps with at most MaxConditionPairs pairs; an operator may
\* also name an empty block
ConditionMaps ==
    LET pairs == ConditionOperators \X ConditionKeys
        chosen == {P \in SUBSET pairs : Cardinality(P) <= MaxConditionPairs}
        blocks(P, empty) ==
            [operator \in {q[1] : q \in P} \cup empty |->
                {q[2] : q \in {x \in P : x[1] = operator}}]
    IN  UNION {UNION {{[operator \in DOMAIN blocks(P, empty) |->
                          [key \in blocks(P, empty)[operator] |-> expected[key]]] :
                       expected \in [ConditionKeys -> {<<"a", "b">>, <<"a", "*">>}]} :
                      empty \in {{}, {"NumericEquals"}}} :
               P \in chosen}

CondStatements ==
    {[Sid |-> "s", Effect |-> EffectAllow, Actions |-> a, Resources |-> r,
      Conditions |-> c] :
        a \in {<<<<"s", "3", ":", "G", "e", "t", "*">>>>, <<<<"s", "3", ":", "P", "u", "t", "*">>>>},
        r \in {<<<<"a", "r", "n", ":", "a", "w", "s", ":", "s", "3", ":", ":", ":", "b", "/", "*">>>>, <<<<"a", "r", "n", ":", "a", "w", "s", ":", "s", "3", ":", ":", ":", "c", "/", "*">>>>},
        c \in ConditionMaps}

CondContexts ==
    {[ClientID |-> "client-1", TenantID |-> "tenant-1", Action |-> <<"s", "3", ":", "G", "e", "t", "O", "b", "j", "e", "c", "t">>,
      Resource |-> BuildResourceARN(<<"b">>, <<"k">>), Bucket |-> <<"b">>, Key |-> <<"k">>,
      Conditions |-> given] :
        given \in UNION {[present -> {<<"a", "b">>, <<"a", "c">>}] : present \in SUBSET ConditionKeys}}

InitCond ==
    /\ NoRequest
    /\ credentials = LoadedCredentials
    /\ policies = LoadedPolicies
    /\ pc = "statementMatches"
    /\ \E ctx \in CondContexts, stmt \in CondStatements :
          \E order \in RangeOrders(stmt.Conditions) : args = <<ctx, stmt, order>>
    /\ result = <<>>

statementMatchesCall ==
    /\ pc = "statementMatches"
    /\ result' = <<statementMatchesIn(args[1], args[2], args[3])>>
    /\ pc' = "statementMatched"
    /\ UNCHANGED <<sinks, locks, threads, args, credentials, policies, req, requestId, streams, s3req, authErr,
                   authCtx, evalCtx, policyNames, decision, trace, auditLog, response,
                   backend, prev>>

NextCond == statementMatchesCall

SpecCond == InitCond /\ [][NextCond]_vars

(***************************************************************************)
(* C22  A statement matches a request only if its action patterns match,   *)
(* its resource patterns match and every (operator, key) pair of its       *)
(* conditions holds; a pair with an unsupported operator or a key absent   *)
(* from the context makes it not match, whatever the order in which the    *)
(* condition map is ranged.                                                *)
(***************************************************************************)
SupportedOperators == {"StringEquals", "StringNotEquals", "StringLike", "StringNotLike"}

StatementMatchesOnlyIfAllHold ==
    pc = "statementMatched" =>
        LET ctx == args[1]
            stmt == args[2]
        IN  /\ result[1] = Applies(ctx, stmt)
            /\ result[1] = statementMatches(ctx, stmt)
            /\ \A q \in PairsOf(stmt.Conditions) :
                   (q[1] \notin SupportedOperators \/ q[2] \notin DOMAIN ctx.Conditions)
                       => result[1] = FALSE

\* the pair ranged first holds, the one ranged second has an unknown operator
UnknownOperatorRangedLast ==
    /\ pc = "statementMatched"
    /\ Len(args[3]) = 2
    /\ args[3][1][1] \in SupportedOperators
    /\ args[3][1][2] \in DOMAIN args[1].Conditions
    /\ ConditionHolds(args[3][1][1], args[1].Conditions[args[3][1][2]],
                      args[2].Conditions[args[3][1][1]][args[3][1][2]])
    /\ args[3][2][1] = "NumericEquals"
    /\ args[3][2][2] \in DOMAIN args[1].Conditions
    /\ MatchAction(args[1].Action, args[2].Actions)
    /\ MatchResource(args[1].Resource, args[2].Resources)
    /\ result = <<FALSE>>

(***************************************************************************)
(* The same request evaluated twice: against a policy set in which the     *)
(* condition of a statement holds, and, after a Reload, against the same   *)
(* set with that condition made to fail (its operator replaced by one the  *)
(* engine does not support, or its key by one the context lacks).          *)
(***************************************************************************)
FailureModes == {"operator", "key"}

FailingConditions(conditions, mode) ==
    IF mode = "operator"
    THEN [operator \in {"NumericEquals"} |->
             conditions[CHOOSE o \in DOMAIN conditions : TRUE]]
    ELSE [operator \in DOMAIN conditions |->
             [key \in {"aws:Missing"} |->
                 conditions[operator][CHOOSE k \in DOMAIN conditions[operator] : TRUE]]]

\* DefaultEngine.Reload installing the set with the condition of statement j
\* of policy name made to fail
BreakCondition ==
    /\ pc = "evaluated"
    /\ \E name \in DOMAIN policies, mode \in FailureModes :
        \E j \in 1..Len(policies[name].Statements) :
            LET stmt == policies[name].Statements[j]
            IN  /\ DOMAIN stmt.Conditions # {}
                /\ evaluateConditions(evalCtx[1], stmt.Conditions)
                /\ policies' = [policies EXCEPT ![name].Statements[j].Conditions =
                                    FailingConditions(stmt.Conditions, mode)]
                /\ args' = <<name, j, mode>>
    /\ pc' = "reevaluate"
    /\ UNCHANGED <<sinks, locks, threads, result, credentials, req, requestId, streams, s3req, authErr, authCtx,
                   evalCtx, policyNames, decision, trace, auditLog, response, backend,
                   prev>>

EvaluateAgainCall ==
    /\ pc = "reevaluate"
    /\ result' = <<Evaluate(evalCtx[1], policyNames)>>
    /\ pc' = "reevaluated"
    /\ UNCHANGED <<sinks, locks, threads, args, credentials, policies, req, requestId, streams, s3req, authErr,
                   authCtx, evalCtx, policyNames, decision, trace, auditLog, response,
                   backend, prev>>

NextFail == EvaluateCall \/ BreakCondition \/ EvaluateAgainCall

SpecFail == InitEval /\ [][NextFail]_vars

(***************************************************************************)
(* C23  Making one statement's condition fail, by an unsupported operator  *)
(* or a key missing from the context, never changes the Evaluate decision  *)
(* from deny to allow, for Deny statements as well as Allow statements.    *)
(***************************************************************************)
BrokenStatement == policies[args[1]].Statements[args[2]]

DenyBecameAllow ==
    /\ pc = "reevaluated"
    /\ ~decision[1].Allowed
    /\ result[1].Allowed

ConditionFailureNeverAllows == ~DenyBecameAllow

\* what the engine does guarantee: a failing condition on an Allow statement
\* never turns a deny into an allow
AllowConditionFailureNeverAllows ==
    (pc = "reevaluated" /\ BrokenStatement.Effect = EffectAllow) => ~DenyBecameAllow

(***************************************************************************)
(* sync.RWMutex as the engine and the credential store use it.  A mutex is *)
(* [readers, writer, waiting]: the number of read locks held, whether the  *)
(* write lock is held, and whether a Lock call is pending (a pending Lock  *)
(* keeps new readers out until it has been served).                        *)
(***************************************************************************)
FreeMutex == [readers |-> 0, writer |-> FALSE, waiting |-> FALSE]

RLockEnabled(m) == ~m.writer /\ ~m.waiting

\* faulty variant: the write lock is granted while read locks are held
LockEnabled_IgnoresReaders(m) == ~m.writer

LockEnabled(m) == m.readers = 0 /\ ~m.writer

RLock(m) == [m EXCEPT !.readers = @ + 1]

\* faulty variant: the read lock is never given back
RUnlock_Forgotten(m) == m

RUnlock(m) == [m EXCEPT !.readers = @ - 1]

LockPending(m) == [m EXCEPT !.waiting = TRUE]

Lock(m) == [m EXCEPT !.writer = TRUE, !.waiting = FALSE]

Unlock(m) == [m EXCEPT !.writer = FALSE]

(***************************************************************************)
(* DefaultEngine.Evaluate and DefaultEngine.Reload as two goroutines.      *)
(* Evaluate looks each policy name up in e.policies as its loop reaches    *)
(* it; Reload loads and builds the new map without the lock and swaps it   *)
(* in under the write lock.                                                *)
(***************************************************************************)
SwapStatementLists == {<<>>} \cup {<<s>> : s \in EvalStatements}

SwapStores ==
    {("p1" :> [Name |-> "p1", Version |-> "v", Statements |-> s1])
     @@ ("p2" :> [Name |-> "p2", Version |-> "v", Statements |-> s2]) :
        s1 \in SwapStatementLists, s2 \in SwapStatementLists}

SwapFiles ==
    {[Readable |-> TRUE, Parses |-> TRUE, Entries |-> <<st["p1"], st["p2"]>>] : st \in SwapStores}
    \cup {[Readable |-> FALSE, Parses |-> FALSE, Entries |-> <<>>]}

SwapContexts ==
    {c \in EvalContexts : c.Action = <<"s", "3", ":", "G", "e", "t", "O", "b", "j", "e", "c", "t">> /\ c.Bucket = <<"b">>}

SwapNameLists == {<<"p1", "p2">>, <<"p2", "p1">>, <<"p2", "p3">>}

InitSwap ==
    /\ credentials = LoadedCredentials
    /\ policies \in SwapStores
    /\ prev = <<policies>>
    /\ pc = "serving"
    /\ req = <<>>
    /\ requestId = ""
    /\ streams = <<>>
    /\ s3req = <<>>
    /\ authErr = ""
    /\ authCtx = <<>>
    /\ evalCtx \in {<<c>> : c \in SwapContexts}
    /\ policyNames \in SwapNameLists
    /\ decision = <<>>
    /\ trace = <<>>
    /\ auditLog = <<>>
    /\ response = <<>>
    /\ backend = <<>>
    /\ args \in {<<file>> : file \in SwapFiles}
    /\ result = <<>>
    /\ sinks = <<>>
    /\ locks = [engine |-> FreeMutex]
    /\ threads = [evaluate |-> [pc |-> "start", i |-> 1, allowDecision |-> <<>>,
                                ret |-> <<>>],
                  reload |-> [pc |-> "start", newPolicies |-> <<>>]]

SwapUnchanged ==
    UNCHANGED <<credentials, prev, pc, req, requestId, streams, s3req, authErr, authCtx,
                evalCtx, policyNames, trace, auditLog, response, backend, args, sinks>>

\* e.mu.RLock()
EvaluateRLock ==
    /\ threads.evaluate.pc = "start"
    /\ RLockEnabled(locks.engine)
    /\ locks' = [locks EXCEPT !.engine = RLock(@)]
    /\ threads' = [threads EXCEPT !.evaluate.pc = "loop"]
    /\ SwapUnchanged
    /\ UNCHANGED <<policies, decision, result>>

\* one turn of the loop over policyNames, or the code after the loop
EvaluateLoop ==
    /\ threads.evaluate.pc = "loop"
    /\ LET t == threads.evaluate
           ctx == evalCtx[1]
           done(d) == [t EXCEPT !.pc = "unlock", !.ret = <<d>>]
       IN  threads' = [threads EXCEPT !.evaluate =
              IF t.i > Len(policyNames)
              THEN done(IF t.allowDecision # <<>> THEN t.allowDecision[1]
                        ELSE DefaultDenyDecision)
              ELSE IF policyNames[t.i] \notin DOMAIN policies
              THEN [t EXCEPT !.i = @ + 1]
              ELSE LET d == evaluatePolicy(ctx, policies[policyNames[t.i]])
                   IN  IF d # <<>> /\ ~d[1].Allowed THEN done(d[1])
                       ELSE IF d # <<>> /\ d[1].Allowed /\ t.allowDecision = <<>>
                       THEN [t EXCEPT !.i = @ + 1, !.allowDecision = d]
                       ELSE [t EXCEPT !.i = @ + 1]]
    /\ SwapUnchanged
    /\ UNCHANGED <<policies, locks, decision, result>>

\* the deferred e.mu.RUnlock(), and the return
EvaluateRUnlock ==
    /\ threads.evaluate.pc = "unlock"
    /\ locks' = [locks EXCEPT !.engine = RUnlock(@)]
    /\ decision' = threads.evaluate.ret
    /\ threads' = [threads EXCEPT !.evaluate.pc = "returned"]
    /\ SwapUnchanged
    /\ UNCHANGED <<policies, result>>

\* config.LoadPolicies and the building of newPolicies
ReloadLoad ==
    /\ threads.reload.pc = "start"
    /\ LET out == EngineReload(policies, args[1])
       IN  IF out.err # ""
           THEN /\ threads' = [threads EXCEPT !.reload.pc = "returned"]
                /\ result' = <<out.err>>
           ELSE /\ threads' = [threads EXCEPT !.reload.pc = "lock",
                                              !.reload.newPolicies = out.policies]
                /\ UNCHANGED result
    /\ SwapUnchanged
    /\ UNCHANGED <<policies, locks, decision>>

\* e.mu.Lock() is called
ReloadLockCalled ==
    /\ threads.reload.pc = "lock"
    /\ locks' = [locks EXCEPT !.engine = LockPending(@)]
    /\ threads' = [threads EXCEPT !.reload.pc = "wait"]
    /\ SwapUnchanged
    /\ UNCHANGED <<policies, decision, result>>

\* e.mu.Lock() returns
ReloadLock ==
    /\ threads.reload.pc = "wait"
    /\ LockEnabled(locks.engine)
    /\ locks' = [locks EXCEPT !.engine = Lock(@)]
    /\ threads' = [threads EXCEPT !.reload.pc = "swap"]
    /\ SwapUnchanged
    /\ UNCHANGED <<policies, decision, result>>

\* e.policies = newPolicies
ReloadSwap ==
    /\ threads.reload.pc = "swap"
    /\ policies' = threads.reload.newPolicies
    /\ threads' = [threads EXCEPT !.reload.pc = "unlock"]
    /\ SwapUnchanged
    /\ UNCHANGED <<locks, decision, result>>

\* e.mu.Unlock(), and the return
ReloadUnlock ==
    /\ threads.reload.pc = "unlock"
    /\ locks' = [locks EXCEPT !.engine = Unlock(@)]
    /\ threads' = [threads EXCEPT !.reload.pc = "returned"]
    /\ result' = <<"">>
    /\ SwapUnchanged
    /\ UNCHANGED <<policies, decision>>

NextSwap ==
    \/ EvaluateRLock
    \/ EvaluateLoop
    \/ EvaluateRUnlock
    \/ ReloadLoad
    \/ ReloadLockCalled
    \/ ReloadLock
    \/ ReloadSwap
    \/ ReloadUnlock

SpecSwap == InitSwap /\ [][NextSwap]_vars

(***************************************************************************)
(* C24  An Evaluate running concurrently with a policy Reload returns the  *)
(* decision determined entirely by the pre-reload policy set or entirely   *)
(* by the post-reload set, never by a mixture; Evaluate writes nothing to  *)
(* the engine's state.                                                     *)
(***************************************************************************)
\* the decision of Evaluate on one snapshot of the policy map
RECURSIVE DecisionOn(_, _, _, _)
DecisionOn(snapshot, ctx, names, allow) ==
    IF names = <<>> THEN (IF allow # <<>> THEN allow[1] ELSE DefaultDenyDecision)
    ELSE IF Head(names) \notin DOMAIN snapshot
    THEN DecisionOn(snapshot, ctx, Tail(names), allow)
    ELSE LET d == evaluatePolicy(ctx, snapshot[Head(names)])
         IN  IF d # <<>> /\ ~d[1].Allowed THEN d[1]
             ELSE DecisionOn(snapshot, ctx, Tail(names),
                             IF allow = <<>> THEN d ELSE allow)

PreReload == prev[1]

PostReload == EngineReload(prev[1], args[1]).policies

DecisionFromOneSnapshot ==
    threads.evaluate.pc = "returned" =>
        \/ decision[1] = DecisionOn(PreReload, evalCtx[1], policyNames, <<>>)
        \/ decision[1] = DecisionOn(PostReload, evalCtx[1], policyNames, <<>>)

EvaluateWritesNothing ==
    threads'.evaluate # threads.evaluate => policies' = policies

EvaluateSeesOneSnapshot ==
    []DecisionFromOneSnapshot /\ [][EvaluateWritesNothing]_vars

\* Evaluate has its decision, that of the pre-reload set, and still holds the
\* read lock; the Reload, whose policy set decides otherwise, waits for it
ReloadWaitsForEvaluate ==
    /\ threads.evaluate.pc = "unlock"
    /\ threads.reload.pc = "wait"
    /\ locks.engine.readers = 1
    /\ threads.evaluate.ret = <<DecisionOn(PreReload, evalCtx[1], policyNames, <<>>)>>
    /\ threads.evaluate.ret # <<DecisionOn(PostReload, evalCtx[1], policyNames, <<>>)>>

(***************************************************************************)
(* A request handled while the credentials and policies files are          *)
(* reloaded.  authenticate is taken in its two calls, GetCredential and    *)
(* ParseAndValidate, so that a Reload can fall between them; threads holds *)
(* the *Credential that GetCredential returned, prev the credential map as *)
(* it was at that moment.                                                  *)
(***************************************************************************)
ReloadedCredentialsFiles ==
    {[Readable |-> TRUE, Parses |-> TRUE,
      Entries |-> <<LoadedCredentials["AK1"], LoadedCredentials["AK2"]>>],
     [Readable |-> TRUE, Parses |-> TRUE,
      Entries |-> <<[LoadedCredentials["AK1"] EXCEPT !.Scopes = <<<<"b", "*">>>>,
                                                     !.Policies = <<"protect">>,
                                                     !.ClientID = "client-9"]>>],
     [Readable |-> TRUE, Parses |-> TRUE, Entries |-> <<LoadedCredentials["AK2"]>>],
     [Readable |-> FALSE, Parses |-> FALSE, Entries |-> <<>>]}

ReloadedPoliciesFiles ==
    {[Readable |-> TRUE, Parses |-> TRUE, Entries |-> <<LoadedPolicies["rw"], LoadedPolicies["protect"]>>],
     [Readable |-> TRUE, Parses |-> TRUE,
      Entries |-> <<[LoadedPolicies["rw"] EXCEPT
                        !.Statements[1].Resources = <<<<"a", "r", "n", ":", "a", "w", "s", ":", "s", "3", ":", ":", ":", "*">>>>]>>]}

ReloadRequests ==
    {MakeRequest(m, p, {}, kind, signer, <<0>>, FALSE, <<(<<>>), (<<>>)>>, <<>>) :
        m \in {MethodGet, MethodPut}, p \in {<<"/", "h", "e", "a", "l", "t", "h">>, <<"/", "a", "b", "/", "k">>, <<"/", "b", "/", "k">>},
        kind \in {"absent", "sigv4"}, signer \in Signers}

AcceptDuringReloads == AcceptFrom(ReloadRequests)

ReturnDuringReloads == ReturnWith(<<>>)

\* InMemoryCredentialStore.Reload, whenever the scheduler lets it run
CredentialsReloaded ==
    /\ \E file \in ReloadedCredentialsFiles :
          credentials' = StoreReload(credentials, file).credentials
    /\ credentials' # credentials
    /\ UNCHANGED <<policies, pc, req, requestId, streams, s3req, authErr, authCtx,
                   evalCtx, policyNames, decision, trace, auditLog, response, backend,
                   prev, args, result, locks, threads, sinks>>

\* DefaultEngine.Reload, whenever the scheduler lets it run
PoliciesReloaded ==
    /\ \E file \in ReloadedPoliciesFiles :
          policies' = EngineReload(policies, file).policies
    /\ policies' # policies
    /\ UNCHANGED <<credentials, pc, req, requestId, streams, s3req, authErr, authCtx,
                   evalCtx, policyNames, decision, trace, auditLog, response, backend,
                   prev, args, result, locks, threads, sinks>>

\* authenticate up to and including GetCredential
LookupCredential ==
    /\ pc = "authenticate"
    /\ LET err == IF req.Authorization.kind = "absent"
                  THEN "missing Authorization header"
                  ELSE IF ParseAuthHeader(req.Authorization) = <<>>
                  THEN "invalid Authorization header format"
                  ELSE IF ParseAuthHeader(req.Authorization)[1].AccessKey
                              \notin DOMAIN credentials
                  THEN "credential not found for access key"
                  ELSE ""
       IN  IF err # ""
           THEN LET eff == handleError(requestId, "", "", s3req, DenyAuthFailed, err, req)
                IN  /\ Finish(eff)
                    /\ authErr' = err
                    /\ trace' = trace \o <<"authenticate">> \o eff.events
                    /\ UNCHANGED <<threads, prev>>
           ELSE /\ threads' =
                     <<credentials[ParseAuthHeader(req.Authorization)[1].AccessKey]>>
                /\ prev' = <<credentials>>
                /\ pc' = "validate"
                /\ UNCHANGED <<authErr, trace, auditLog, response>>
    /\ UNCHANGED <<credentials, policies, req, requestId, streams, s3req, authCtx, evalCtx,
                   policyNames, decision, backend, args, result, locks, sinks>>

\* the rest of authenticate: ParseAndValidate with the credential fetched
ValidateSignature ==
    /\ pc = "validate"
    /\ LET cred == threads[1]
           bodyBytes == streams[req.Body]
           reads == ReadsBody(req, cred)
           err == ParseAndValidate(req, bodyBytes, cred)
       IN  /\ authErr' = err
           /\ streams' = IF reads
                         THEN Append([streams EXCEPT ![req.Body] = <<>>], bodyBytes)
                         ELSE streams
           /\ req' = IF reads THEN [req EXCEPT !.Body = Len(streams) + 1] ELSE req
           /\ IF err # ""
              THEN LET eff == handleError(requestId, "", "", s3req, DenyAuthFailed,
                                          err, req)
                   IN  /\ Finish(eff)
                       /\ trace' = trace \o <<"authenticate">> \o eff.events
                       /\ UNCHANGED authCtx
              ELSE /\ authCtx' = <<[ClientID |-> cred.ClientID,
                                    TenantID |-> cred.TenantID,
                                    AccessKey |-> cred.AccessKey,
                                    Policies |-> cred.Policies,
                                    Scopes |-> cred.Scopes]>>
                   /\ pc' = "tenant"
                   /\ trace' = trace \o <<"authenticate">>
                   /\ UNCHANGED <<auditLog, response>>
    /\ UNCHANGED <<credentials, policies, requestId, s3req, evalCtx, policyNames,
                   decision, backend, prev, args, result, locks, threads, sinks>>

NextDuringReloads ==
    \/ AcceptDuringReloads
    \/ HealthCheck
    \/ ParseRequest
    \/ LookupCredential
    \/ ValidateSignature
    \/ CheckTenant
    \/ EvaluatePolicy
    \/ ForwardRequest
    \/ ReturnDuringReloads
    \/ CredentialsReloaded
    \/ PoliciesReloaded

SpecDuringReloads == Init /\ [][NextDuringReloads]_vars

(***************************************************************************)
(* C25  Within one request the credential record fetched at authentication *)
(* is the one used for the rest of the request: the scopes checked at the  *)
(* tenant boundary and the policy names passed to Evaluate come from the   *)
(* snapshot seen by GetCredential, even if a credential Reload replaces or *)
(* removes that access key before those checks run; the policy lookup may  *)
(* see a newer policy snapshot.                                            *)
(***************************************************************************)
\* the credential of the request in the snapshot GetCredential saw
FetchedCredential == prev[1][req.Authorization.AccessKey]

CredentialOfLookupUsed ==
    /\ authCtx # <<>> =>
           /\ authCtx[1].Scopes = FetchedCredential.Scopes
           /\ authCtx[1].Policies = FetchedCredential.Policies
           /\ authCtx[1].ClientID = FetchedCredential.ClientID
           /\ authCtx[1].TenantID = FetchedCredential.TenantID
    /\ (pc = "done" /\ Count(trace, "scope") = 1) =>
           (auditLog[1].DenyReason = DenyTenantBoundary
               <=> ~ScopeAdmits(s3req[1].Bucket, FetchedCredential.Scopes))
    /\ Count(trace, "evaluate") = 1 =>
           /\ policyNames = FetchedCredential.Policies
           /\ evalCtx[1].ClientID = FetchedCredential.ClientID
    /\ (pc = "done" /\ Count(trace, "scope") = 1) =>
           /\ auditLog[1].ClientID = FetchedCredential.ClientID
           /\ auditLog[1].TenantID = FetchedCredential.TenantID

\* a request is forwarded although its access key has since been removed
\* and the scopes now on file would not have admitted its bucket
ForwardedAfterKeyRemoved ==
    /\ pc = "done"
    /\ Len(backend) = 1
    /\ req.Authorization.AccessKey \notin DOMAIN credentials
    /\ ScopeAdmits(s3req[1].Bucket, FetchedCredential.Scopes)

(***************************************************************************)
(* internal/audit: JSONLogger.Log called by several goroutines.  A Write   *)
(* hands its bytes to the sink one at a time and may fail at any point,    *)
(* leaving what it had written; Log then returns without writing to the    *)
(* writers that follow.                                                    *)
(***************************************************************************)
MaxLoggers == 2   \* goroutines calling Log (SpecLog)

Loggers == 1..MaxLoggers

\* json.Marshal of a string: a line feed becomes the two characters \n
RECURSIVE EscapeJSON(_)
EscapeJSON(s) ==
    IF s = <<>> THEN <<>>
    ELSE (IF Head(s) = "\n" THEN <<"\\", "n">>
          ELSE IF Head(s) \in {"\"", "\\"} THEN <<"\\", Head(s)>>
          ELSE <<Head(s)>>) \o EscapeJSON(Tail(s))

\* json.Marshal(entry), of which the request id and the error text are kept
MarshalEntry(entry) ==
    <<"{">> \o EscapeJSON(entry.RequestID) \o <<",">> \o EscapeJSON(entry.ErrorMsg)
            \o <<"}">>

\* data = append(data, '\n')
LogData(entry) == MarshalEntry(entry) \o <<"\n">>

\* the entry goroutine i logs
LoggedEntry(i) ==
    [RequestID |-> <<(<<"1", "2", "3", "4">>)[i]>>,
     ErrorMsg |-> IF i = 1 THEN <<"\n">> ELSE <<"x">>]

AuditOutputs == {<<"stdout">>, <<"file">>, <<"stdout", "file">>}

\* sync.Mutex
MutexFree == [held |-> FALSE]

\* faulty variant: Lock returns although the mutex is held
MutexLockEnabled_Always(m) == TRUE

MutexLockEnabled(m) == ~m.held

InitLog ==
    /\ NoRequestHandled
    /\ credentials = LoadedCredentials
    /\ policies = LoadedPolicies
    /\ pc = "logging"
    /\ args \in {<<[enabled |-> e, writers |-> w]>> : e \in BOOLEAN, w \in AuditOutputs}
    /\ result = <<>>
    /\ sinks = [stdout |-> <<>>, file |-> <<>>]
    /\ locks = [audit |-> MutexFree]
    /\ threads = [i \in Loggers |-> [pc |-> "start", w |-> 1, n |-> 0, failed |-> {}]]

LogUnchanged ==
    UNCHANGED <<credentials, policies, pc, req, requestId, streams, s3req, authErr,
                authCtx, evalCtx, policyNames, decision, trace, auditLog, response,
                backend, prev, args, result>>

\* the enabled check and json.Marshal
LogMarshal(i) ==
    /\ threads[i].pc = "start"
    /\ threads' = [threads EXCEPT ![i].pc =
                      IF ~args[1].enabled \/ Len(args[1].writers) = 0
                      THEN "returned" ELSE "lock"]
    /\ LogUnchanged
    /\ UNCHANGED <<locks, sinks>>

\* l.mu.Lock()
LogLock(i) ==
    /\ threads[i].pc = "lock"
    /\ MutexLockEnabled(locks.audit)
    /\ locks' = [locks EXCEPT !.audit.held = TRUE]
    /\ threads' = [threads EXCEPT ![i].pc = "write"]
    /\ LogUnchanged
    /\ UNCHANGED sinks

\* w.Write(data) hands over the next byte
LogWriteByte(i) ==
    /\ threads[i].pc = "write"
    /\ LET t == threads[i]
           data == LogData(LoggedEntry(i))
           sink == args[1].writers[t.w]
           last == t.n + 1 = Len(data)
       IN  /\ sinks' = [sinks EXCEPT ![sink] = Append(@, data[t.n + 1])]
           /\ threads' = [threads EXCEPT ![i] =
                 IF ~last THEN [t EXCEPT !.n = @ + 1]
                 ELSE IF t.w = Len(args[1].writers) THEN [t EXCEPT !.pc = "unlock"]
                 ELSE [t EXCEPT !.w = @ + 1, !.n = 0]]
    /\ LogUnchanged
    /\ UNCHANGED locks

\* w.Write(data) returns an error: Log returns it
LogWriteFails(i) ==
    /\ threads[i].pc = "write"
    /\ threads' = [threads EXCEPT ![i].pc = "unlock",
                                  ![i].failed = @ \cup {args[1].writers[threads[i].w]}]
    /\ LogUnchanged
    /\ UNCHANGED <<locks, sinks>>

\* the deferred l.mu.Unlock()
LogUnlock(i) ==
    /\ threads[i].pc = "unlock"
    /\ locks' = [locks EXCEPT !.audit.held = FALSE]
    /\ threads' = [threads EXCEPT ![i].pc = "returned"]
    /\ LogUnchanged
    /\ UNCHANGED sinks

NextLog ==
    \E i \in Loggers :
        \/ LogMarshal(i)
        \/ LogLock(i)
        \/ LogWriteByte(i)
        \/ LogWriteFails(i)
        \/ LogUnlock(i)

SpecLog == InitLog /\ [][NextLog]_vars

(***************************************************************************)
(* C26  Audit records are never interleaved: for any number of concurrent  *)
(* Log calls on an enabled logger each sink receives a sequence of         *)
(* complete single-line JSON records, each record's bytes contiguous and   *)
(* ending in one newline, and two sinks receive the records in the same    *)
(* relative order.                                                         *)
(***************************************************************************)
AllLogsReturned == \A i \in Loggers : threads[i].pc = "returned"

\* s is made of the records of some of the goroutines in T, one after the
\* other, where the goroutines in torn may have left a beginning only
RECURSIVE MadeOfRecords(_, _, _)
MadeOfRecords(s, T, torn) ==
    \/ s = <<>>
    \/ \E i \in T :
         \E k \in 1..Len(LogData(LoggedEntry(i))) :
            /\ k = Len(LogData(LoggedEntry(i))) \/ i \in torn
            /\ k <= Len(s)
            /\ SubSeq(s, 1, k) = SubSeq(LogData(LoggedEntry(i)), 1, k)
            /\ MadeOfRecords(SubSeq(s, k + 1, Len(s)), T \ {i}, torn)

\* where the complete record of goroutine i starts in s (0: nowhere)
RecordAt(s, i) ==
    LET data == LogData(LoggedEntry(i))
        starts == {p \in 1..Len(s) : /\ p + Len(data) - 1 <= Len(s)
                                     /\ SubSeq(s, p, p + Len(data) - 1) = data}
    IN  IF starts = {} THEN 0 ELSE CHOOSE p \in starts : TRUE

SameRelativeOrder ==
    \A i, j \in Loggers :
        (\A name \in {"stdout", "file"} :
            RecordAt(sinks[name], i) > 0 /\ RecordAt(sinks[name], j) > 0)
        => (RecordAt(sinks.stdout, i) < RecordAt(sinks.stdout, j)
                <=> RecordAt(sinks.file, i) < RecordAt(sinks.file, j))

OneLineEach ==
    \A i \in Loggers :
        Cardinality({p \in 1..Len(LogData(LoggedEntry(i))) :
                        LogData(LoggedEntry(i))[p] = "\n"}) = 1

\* C26 as stated
RecordsNeverInterleaved ==
    (AllLogsReturned /\ args[1].enabled) =>
        /\ OneLineEach
        /\ \A name \in {"stdout", "file"} : MadeOfRecords(sinks[name], Loggers, {})
        /\ SameRelativeOrder

\* the goroutines whose Write to the sink failed
TornAt(name) == {i \in Loggers : name \in threads[i].failed}

\* C26 as amended: a Write that fails may leave the beginning of its record
RecordsNeverInterleavedUnlessWriteFails ==
    (AllLogsReturned /\ args[1].enabled) =>
        /\ OneLineEach
        /\ \A name \in {"stdout", "file"} :
               MadeOfRecords(sinks[name], Loggers, TornAt(name))
        /\ SameRelativeOrder
        /\ \A i \in Loggers :
               threads[i].failed = {} =>
                   \A w \in 1..Len(args[1].writers) :
                       RecordAt(sinks[args[1].writers[w]], i) > 0

\* a Write of goroutine 1 failed part-way and the record of goroutine 2
\* follows what it left
RecordAfterTornRecord ==
    /\ AllLogsReturned
    /\ threads[1].failed = {"stdout"}
    /\ threads[2].failed = {}
    /\ RecordAt(sinks.stdout, 2) > 1
    /\ RecordAt(sinks.stdout, 1) = 0
    /\ sinks.stdout[1] = "{"

(***************************************************************************)
(* ServeHTTP with the locks it takes and the places where it waits for     *)
(* the network: the read of the request body (io.ReadAll for the payload   *)
(* hash), the forward call, and the writing of the response to the client. *)
(* GetCredential, Evaluate and Log take their lock on entry and give it    *)
(* back, deferred, on return.                                              *)
(***************************************************************************)
LockRequests ==
    {MakeRequest(m, p, {}, kind, signer, <<0>>, withSha, <<(<<>>), (<<>>)>>, <<>>) :
        m \in {MethodGet, MethodPut}, p \in {<<"/", "h", "e", "a", "l", "t", "h">>, <<"/">>, <<"/", "a", "b", "/", "k">>, <<"/", "b", "/", "k">>},
        kind \in {"absent", "sigv4"}, signer \in Signers, withSha \in BOOLEAN}

InitLocks ==
    /\ NoRequestHandled
    /\ credentials = LoadedCredentials
    /\ policies = LoadedPolicies
    /\ pc = "idle"
    /\ args \in {<<[enabled |-> e, writers |-> <<"stdout">>]>> : e \in BOOLEAN}
    /\ result = <<>>
    /\ sinks = <<>>
    /\ locks = [store |-> FreeMutex, engine |-> FreeMutex, audit |-> MutexFree]
    /\ threads = <<>>

LocksFrame ==
    UNCHANGED <<credentials, policies, requestId, streams, evalCtx, policyNames,
                auditLog, response, backend, prev, args, result, sinks>>

\* a request arrives
ServeStart ==
    /\ pc = "idle"
    /\ req' \in LockRequests
    /\ pc' = "start"
    /\ s3req' = <<>>
    /\ authErr' = ""
    /\ authCtx' = <<>>
    /\ decision' = <<>>
    /\ trace' = <<>>
    /\ threads' = <<>>
    /\ LocksFrame
    /\ UNCHANGED locks

\* the health check, ParseS3Request, and authenticate up to ParseAuthHeader
ServeParse ==
    /\ pc = "start"
    /\ IF IsHealthCheck(req.Path)
       THEN /\ pc' = "writing"
            /\ UNCHANGED <<s3req, authErr>>
       ELSE /\ s3req' = <<ParseS3Request(req)>>
            /\ IF bucketIsEmpty(ParseS3Request(req))
               THEN pc' = "log" /\ UNCHANGED authErr
               ELSE IF req.Authorization.kind = "absent"
               THEN pc' = "log" /\ authErr' = "missing Authorization header"
               ELSE IF ParseAuthHeader(req.Authorization) = <<>>
               THEN pc' = "log" /\ authErr' = "invalid Authorization header format"
               ELSE pc' = "getCredential" /\ UNCHANGED authErr
    /\ LocksFrame
    /\ UNCHANGED <<req, authCtx, decision, trace, locks, threads>>

\* GetCredential: s.mu.RLock()
GetCredentialEnter ==
    /\ pc = "getCredential"
    /\ RLockEnabled(locks.store)
    /\ locks' = [locks EXCEPT !.store = RLock(@)]
    /\ trace' = Append(trace, "store.RLock")
    /\ pc' = "lookup"
    /\ LocksFrame
    /\ UNCHANGED <<req, s3req, authErr, authCtx, decision, threads>>

\* GetCredential: the lookup, the deferred RUnlock and the return; then
\* ParseAndValidate as far as the read of the body
GetCredentialReturn ==
    /\ pc = "lookup"
    /\ locks' = [locks EXCEPT !.store = RUnlock(@)]
    /\ LET accessKey == ParseAuthHeader(req.Authorization)[1].AccessKey
       IN  IF accessKey \notin DOMAIN credentials
           THEN /\ authErr' = "credential not found for access key"
                /\ pc' = "log"
                /\ UNCHANGED threads
           ELSE /\ threads' = <<credentials[accessKey]>>
                /\ pc' = IF ReadsBody(req, credentials[accessKey])
                         THEN "readingBody" ELSE "validate"
                /\ UNCHANGED authErr
    /\ LocksFrame
    /\ UNCHANGED <<req, s3req, authCtx, decision, trace>>

\* io.ReadAll(req.Body) returns
BodyArrives ==
    /\ pc = "readingBody"
    /\ trace' = Append(trace, "body")
    /\ pc' = "validate"
    /\ LocksFrame
    /\ UNCHANGED <<req, s3req, authErr, authCtx, decision, locks, threads>>

\* the rest of ParseAndValidate, and checkTenantBoundary
ServeValidate ==
    /\ pc = "validate"
    /\ LET cred == threads[1]
           err == ParseAndValidate(req, req.Sent, cred)
           ctx == [ClientID |-> cred.ClientID, TenantID |-> cred.TenantID,
                   AccessKey |-> cred.AccessKey, Policies |-> cred.Policies,
                   Scopes |-> cred.Scopes]
       IN  /\ authErr' = err
           /\ authCtx' = IF err = "" THEN <<ctx>> ELSE <<>>
           /\ pc' = IF err = "" /\ checkTenantBoundary(ctx, s3req[1])
                    THEN "evaluate" ELSE "log"
    /\ LocksFrame
    /\ UNCHANGED <<req, s3req, decision, trace, locks, threads>>

\* Evaluate: e.mu.RLock()
EvaluateEnter ==
    /\ pc = "evaluate"
    /\ RLockEnabled(locks.engine)
    /\ locks' = [locks EXCEPT !.engine = RLock(@)]
    /\ trace' = Append(trace, "engine.RLock")
    /\ pc' = "evaluating"
    /\ LocksFrame
    /\ UNCHANGED <<req, s3req, authErr, authCtx, decision, threads>>

\* Evaluate: the loops, the deferred RUnlock and the return
EvaluateReturn ==
    /\ pc = "evaluating"
    /\ locks' = [locks EXCEPT !.engine = RUnlock(@)]
    /\ LET ctx == [ClientID |-> authCtx[1].ClientID, TenantID |-> authCtx[1].TenantID,
                   Action |-> s3req[1].Action, Resource |-> ToARN(s3req[1]),
                   Bucket |-> s3req[1].Bucket, Key |-> s3req[1].Key,
                   Conditions |-> ("aws:SourceIp" :> getClientIP(req))]
           d == Evaluate(ctx, authCtx[1].Policies)
       IN  /\ decision' = <<d>>
           /\ pc' = IF d.Allowed THEN "forwarding" ELSE "log"
    /\ LocksFrame
    /\ UNCHANGED <<req, s3req, authErr, authCtx, trace, threads>>

\* s3Client.Forward returns, with a response or an error
ForwardReturns ==
    /\ pc = "forwarding"
    /\ trace' = Append(trace, "forward")
    /\ pc' = "log"
    /\ LocksFrame
    /\ UNCHANGED <<req, s3req, authErr, authCtx, decision, locks, threads>>

\* auditLogger.Log: the enabled check, json.Marshal and l.mu.Lock()
AuditLogEnter ==
    /\ pc = "log"
    /\ IF ~args[1].enabled
       THEN pc' = "writing" /\ UNCHANGED <<locks, trace>>
       ELSE /\ MutexLockEnabled(locks.audit)
            /\ locks' = [locks EXCEPT !.audit.held = TRUE]
            /\ trace' = Append(trace, "audit.Lock")
            /\ pc' = "logging"
    /\ LocksFrame
    /\ UNCHANGED <<req, s3req, authErr, authCtx, decision, threads>>

\* auditLogger.Log: the writes, the deferred Unlock and the return
AuditLogReturn ==
    /\ pc = "logging"
    /\ locks' = [locks EXCEPT !.audit.held = FALSE]
    /\ pc' = "writing"
    /\ LocksFrame
    /\ UNCHANGED <<req, s3req, authErr, authCtx, decision, trace, threads>>

\* the response (health, error document or backend body) has gone to the
\* client and ServeHTTP returns
ResponseWritten ==
    /\ pc = "writing"
    /\ pc' = "idle"
    /\ LocksFrame
    /\ UNCHANGED <<req, s3req, authErr, authCtx, decision, trace, locks, threads>>

NextLocks ==
    \/ ServeStart
    \/ ServeParse
    \/ GetCredentialEnter
    \/ GetCredentialReturn
    \/ BodyArrives
    \/ ServeValidate
    \/ EvaluateEnter
    \/ EvaluateReturn
    \/ ForwardReturns
    \/ AuditLogEnter
    \/ AuditLogReturn
    \/ ResponseWritten

SpecLocks == InitLocks /\ [][NextLocks]_vars

(***************************************************************************)
(* C27  No credential-store lock, policy-engine lock or audit-logger mutex *)
(* is held while a request is blocked on reading the request body for the  *)
(* payload hash, on the backend forward call, or on streaming the response *)
(* body to the client.                                                     *)
(***************************************************************************)
BlockedOnNetwork == pc \in {"readingBody", "forwarding", "writing"}

NoLockHeld ==
    /\ locks.store.readers = 0 /\ ~locks.store.writer
    /\ locks.engine.readers = 0 /\ ~locks.engine.writer
    /\ ~locks.audit.held

NoLockWhileBlocked == BlockedOnNetwork => NoLockHeld

\* a forwarded request, which took all three locks and read its body, is
\* writing its response
WritingAfterAllLocks ==
    /\ pc = "writing"
    /\ trace = <<"store.RLock", "body", "engine.RLock", "forward", "audit.Lock">>

(***************************************************************************)
(* Reload calls on files that fail in every way the loaders know, and on   *)
(* files that load, in any order.                                          *)
(***************************************************************************)
TriedPolicies ==
    {[Name |-> f[1], Version |-> "2012-10-17", Statements |-> f[2]] :
        f \in {<<"p1", <<FileStatement(EffectAllow, <<<<"s", "3", ":", "*">>>>, <<<<"*">>>>)>>>>,
               <<"p1", <<FileStatement(EffectDeny, <<<<"s", "3", ":", "*">>>>, <<<<"*">>>>)>>>>,
               <<"p2", <<FileStatement(EffectAllow, <<<<"s", "3", ":", "*">>>>, <<<<"*">>>>)>>>>,
               <<"", <<FileStatement(EffectAllow, <<<<"s", "3", ":", "*">>>>, <<<<"*">>>>)>>>>,
               <<"p1", <<FileStatement("Audit", <<<<"s", "3", ":", "*">>>>, <<<<"*">>>>)>>>>,
               <<"p1", <<FileStatement(EffectAllow, <<>>, <<<<"*">>>>)>>>>,
               <<"p1", <<FileStatement(EffectAllow, <<<<"s", "3", ":", "*">>>>, <<>>)>>>>}}

FileStates == {<<FALSE, FALSE>>, <<TRUE, FALSE>>, <<TRUE, TRUE>>}

TriedPoliciesFiles ==
    {[Readable |-> r[1], Parses |-> r[2], Entries |-> e] :
        r \in FileStates, e \in SeqsUpTo(TriedPolicies, 2)}

TriedCredentialsFiles ==
    {[Readable |-> r[1], Parses |-> r[2], Entries |-> e] :
        r \in FileStates, e \in SeqsUpTo(FileCredentials, 2)}

TryPoliciesFile ==
    /\ pc = "idle"
    /\ \E file \in TriedPoliciesFiles : args' = <<file>>
    /\ pc' = "policies"
    /\ ReloadUnchanged
    /\ UNCHANGED <<result, credentials, policies>>

TryCredentialsFile ==
    /\ pc = "idle"
    /\ \E file \in TriedCredentialsFiles : args' = <<file>>
    /\ pc' = "credentials"
    /\ ReloadUnchanged
    /\ UNCHANGED <<result, credentials, policies>>

NextFailedReload ==
    \/ TryPoliciesFile
    \/ TryCredentialsFile
    \/ EngineReloadCall
    \/ StoreReloadCall
    \/ ReloadReturn

SpecFailedReload == InitReload /\ [][NextFailedReload]_vars

(***************************************************************************)
(* C28  A Reload that fails (unreadable file, parse error, or validation   *)
(* error) leaves the store exactly as it was: the credential map,          *)
(* respectively the policy map, is unchanged and lookups and evaluations   *)
(* after the failed Reload behave as before it; only a fully loaded and    *)
(* validated configuration is ever swapped in.                             *)
(***************************************************************************)
\* the file can be read, parsed and passes validation
PoliciesFileLoads(file) ==
    /\ file.Readable
    /\ file.Parses
    /\ PoliciesFileWellFormed(file.Entries)
    /\ \A i \in 1..Len(file.Entries) : file.Entries[i].Name # ""

CredentialsFileLoads(file) ==
    /\ file.Readable
    /\ file.Parses
    /\ CredentialsFileWellFormed(file.Entries)
    /\ \A i \in 1..Len(file.Entries) :
           /\ file.Entries[i].AccessKey # ""
           /\ file.Entries[i].SecretKey # ""
           /\ file.Entries[i].ClientID # ""
           /\ file.Entries[i].TenantID # ""

ReloadProbes ==
    {c \in EvalContexts :
        c.Action = <<"s", "3", ":", "G", "e", "t", "O", "b", "j", "e", "c", "t">> /\ c.Bucket = <<"b">> /\ c.Conditions["aws:SourceIp"] = <<"1">>}

ReloadProbeNames == {<<"p1", "p2">>, <<"p2">>}

\* the map holds the entries of the file, and nothing else
HoldsExactly(installed, entries, keys) ==
    /\ DOMAIN installed = {keys[i] : i \in 1..Len(keys)}
    /\ \A i \in 1..Len(entries) : \A f \in DOMAIN entries[i] :
           installed[keys[i]][f] = entries[i][f]

FailedReloadChangesNothingStep ==
    /\ (pc = "policies" /\ pc' = "policiesReloaded") =>
           /\ credentials' = credentials
           /\ (result'[1] # "") <=> ~PoliciesFileLoads(args[1])
           /\ result'[1] # "" =>
                  /\ policies' = policies
                  /\ \A ctx \in ReloadProbes, names \in ReloadProbeNames :
                         Evaluate(ctx, names)' = Evaluate(ctx, names)
           /\ result'[1] = "" =>
                  HoldsExactly(policies', args[1].Entries,
                               [i \in 1..Len(args[1].Entries) |-> args[1].Entries[i].Name])
    /\ (pc = "credentials" /\ pc' = "credentialsReloaded") =>
           /\ policies' = policies
           /\ (result'[1] # "") <=> ~CredentialsFileLoads(args[1])
           /\ result'[1] # "" =>
                  /\ credentials' = credentials
                  /\ \A accessKey \in {"AK1", "AK2", "AK3"} :
                         /\ (accessKey \in DOMAIN credentials') =
                                (accessKey \in DOMAIN credentials)
                         /\ accessKey \in DOMAIN credentials =>
                                credentials'[accessKey] = credentials[accessKey]
           /\ result'[1] = "" =>
                  HoldsExactly(credentials', args[1].Entries,
                               [i \in 1..Len(args[1].Entries) |->
                                   args[1].Entries[i].AccessKey])

FailedReloadChangesNothing == [][FailedReloadChangesNothingStep]_vars

\* a credentials file that does not parse was refused while two credentials
\* are installed
ParseErrorAfterCredentialsInstalled ==
    /\ pc = "credentialsReloaded"
    /\ result # <<>> /\ result[1] # ""
    /\ args[1].Readable /\ ~args[1].Parses
    /\ args[1].Entries # <<>>
    /\ DOMAIN credentials = {"AK1", "AK2"}
    /\ DOMAIN policies = {"p1", "p2"}

(***************************************************************************)
(* C29  In determineAction a special query flag (acl, versioning,          *)
(* lifecycle, policy, tagging, uploads, uploadId) combined with a method   *)
(* that is not listed for that flag is ignored: the action is the one of   *)
(* the same request without that flag; flags are tried in the fixed order  *)
(* acl, versioning, lifecycle, policy, tagging, uploads, uploadId; and     *)
(* s3:Unknown is returned only when the method is none of GET, HEAD, PUT,  *)
(* POST, DELETE.                                                           *)
(***************************************************************************)
FlagOrder ==
    <<"acl", "versioning", "lifecycle", "policy", "tagging", "uploads", "uploadId">>

\* the table has a row for the flag and the method
Listed(flag, method) == \E row \in ActionTable : row[1] = flag /\ row[2] = method

\* the flags of the query that have a row for the method, as places of FlagOrder
ListedPlaces(query, method) ==
    {i \in 1..Len(FlagOrder) : FlagOrder[i] \in query /\ Listed(FlagOrder[i], method)}

FirstOf(places) == CHOOSE i \in places : \A j \in places : i <= j

UnlistedFlagIgnored ==
    pc = "requestParsed" =>
        LET method == args[1].Method
            query == args[1].Query
            places == ListedPlaces(query, method)
        IN  /\ \A flag \in query \cap QueryFlags :
                   ~Listed(flag, method) =>
                       result[1].Action =
                           determineAction(method, result[1].Bucket, result[1].Key,
                                           query \ {flag})
            /\ places # {} =>
                   <<FlagOrder[FirstOf(places)], method, result[1].Key = <<>>,
                     result[1].Action>> \in ActionTable
            /\ places = {} =>
                   \A row \in ActionTable :
                       (/\ row[1] = "" /\ row[2] = method
                        /\ row[3] = (result[1].Key = <<>>)) =>
                           row[4] = result[1].Action
            /\ result[1].Action = <<"s", "3", ":", "U", "n", "k", "n", "o", "w", "n">> =>
                   method \notin {"GET", "HEAD", "PUT", "POST", "DELETE"}

\* DELETE of an object with ?acl&tagging: acl is passed over, tagging applies
AclPassedOverForTagging ==
    /\ pc = "requestParsed"
    /\ args[1].Method = "DELETE"
    /\ args[1].Query = {"acl", "tagging"}
    /\ result[1].Key # <<>>
    /\ result[1].Action = <<"s", "3", ":", "D", "e", "l", "e", "t", "e", "O", "b", "j", "e", "c", "t", "T", "a", "g", "g", "i", "n", "g">>

(***************************************************************************)
(* The gateway of a client that is entitled to every bucket whose name     *)
(* starts with "h", the bucket "health" included.                          *)
(***************************************************************************)
HealthCredentials ==
    ("AK1" :> [AccessKey |-> "AK1", SecretKey |-> "SK1",
               ClientID |-> "client-1", TenantID |-> "tenant-1",
               Policies |-> <<"all">>,
               Scopes |-> <<<<"h", "*">>>>])

HealthPolicies ==
    ("all" :> [Name |-> "all", Version |-> "2012-10-17",
               Statements |-> <<
                 [Sid |-> "AllowAll", Effect |-> EffectAllow,
                  Actions |-> <<<<"s", "3", ":", "*">>>>,
                  Resources |-> <<<<"a", "r", "n", ":", "a", "w", "s", ":", "s", "3", ":", ":", ":", "*">>>>,
                  Conditions |-> NoConditions]>>])

HealthRequests ==
    {MakeRequest(m, p, q, kind, signer, <<0>>, TRUE, <<(<<>>), (<<>>)>>, xff) :
        m \in {MethodGet, MethodHead, MethodPut, MethodDelete, "PATCH"},
        p \in {<<"/", "h", "e", "a", "l", "t", "h">>, <<"/", "h", "e", "a", "l", "t", "h", "/">>, <<"/", "h", "e", "a", "l", "t", "h", "/", "x">>, <<"/", "h", "e", "a", "l", "t", "h", "y">>, <<"/">>},
        q \in {{}, {"acl"}},
        kind \in AuthKinds,
        signer \in {s \in Signers : s.AccessKey = "AK1"},
        xff \in ForwardedFor}

InitHealth ==
    /\ NoRequest
    /\ credentials = HealthCredentials
    /\ policies = HealthPolicies
    /\ pc = "idle"
    /\ args = <<>>
    /\ result = <<>>

AcceptHealth == AcceptFrom(HealthRequests)

NextHealth == AcceptHealth \/ Handle \/ Return

SpecHealth == InitHealth /\ [][NextHealth]_vars

(***************************************************************************)
(* C30  A request whose URL path is exactly /health, with any method and   *)
(* any headers, is answered 200 without authentication, scope check,       *)
(* policy evaluation, backend call or audit entry; every other path,       *)
(* including /health/x, goes through the full pipeline, so the root of a   *)
(* bucket named "health" can never be authorized or forwarded.             *)
(***************************************************************************)
HealthAnswered ==
    (pc = "done" /\ req.Path = HealthPath) =>
        /\ response[1].StatusCode = 200
        /\ response[1].Body = <<"O", "K">>
        /\ Checks = <<>>
        /\ s3req = <<>> /\ authCtx = <<>> /\ decision = <<>>
        /\ backend = <<>>
        /\ auditLog = <<>>

\* the request was parsed, checked in order up to the first failure, and
\* audited; it reached the backend only after every check passed
OtherPathsPipelined ==
    (pc = "done" /\ req.Path # HealthPath) =>
        /\ Checks # <<>>
        /\ Checks = SubSeq(CheckOrder, 1, Len(Checks))
        /\ s3req # <<>> /\ s3req[1].Bucket = AskedBucket /\ s3req[1].Key = AskedKey
        /\ Len(auditLog) = 1
        /\ response[1].Body # <<"O", "K">>
        /\ Count(trace, "authenticate") = 0 => response[1].StatusCode = 400
        /\ backend # <<>> =>
               /\ Checks = CheckOrder
               /\ ValidatesWith(req.Sent)
               /\ ScopeAdmits(AskedBucket, NamedCredential[1].Scopes)
               /\ decision[1].Allowed

HealthBucketRootServed ==
    /\ s3req # <<>>
    /\ s3req[1].Bucket = <<"h", "e", "a", "l", "t", "h">>
    /\ s3req[1].Key = <<>>
    /\ \/ decision # <<>> /\ decision[1].Allowed
       \/ backend # <<>>

\* C30 as stated
HealthBucketRootNeverServed ==
    /\ HealthAnswered
    /\ OtherPathsPipelined
    /\ ~HealthBucketRootServed

\* C30 as amended: the root of the bucket "health" is out of reach under the
\* path /health only
OnlyHealthPathBypasses ==
    /\ HealthAnswered
    /\ OtherPathsPipelined
    /\ HealthBucketRootServed => req.Path = <<"/", "h", "e", "a", "l", "t", "h", "/">>

\* an object of the bucket "health" is served through the pipeline
HealthObjectForwarded ==
    /\ pc = "done"
    /\ req.Path = <<"/", "h", "e", "a", "l", "t", "h", "/", "x">>
    /\ Checks = CheckOrder
    /\ Len(backend) = 1 /\ backend[1].Bucket = <<"h", "e", "a", "l", "t", "h">> /\ backend[1].Key = <<"x">>
    /\ auditLog[1].Decision = "allow"
====
